---- MODULE Spec2Model ----
(***************************************************************************)
(* The KIO effect tree (packages/core/src/kio.ts), its interpreter         *)
(* (packages/core/src/runner/runner.ts) over the PromiseEither effect      *)
(* (packages/core/src/runner/promise/promiseEither.ts) and the promise     *)
(* runner (packages/core/src/runner/promise/runner.ts).                    *)
(*                                                                         *)
(* The recursive Interpreter.run is modelled as an abstract machine: the   *)
(* node being evaluated (ctrl), and a stack holding one frame for every    *)
(* pending F.flatMap / F.fold of an enclosing AndThen / Fold node.  A      *)
(* promise of the interpreter ends in one of three ways: it resolves to    *)
(* Right([bulkRequests, a]), it resolves to Left(e), or it rejects.        *)
(***************************************************************************)
EXTENDS Integers, Sequences, FiniteSets, TLC

VARIABLES
  desc,         \* how the root effect was built (steps, handler, wrapped range)
  ctrl,         \* what the interpreter is doing now
  stack,        \* pending flatMap / fold callbacks, innermost first
  clientCalls,  \* every call made on the KintoneClient, in order
  clientReplies,\* how the client answered each call: Left(e), Right(a) or a throw
  thunkRuns,    \* number of times an Async thunk was invoked
  invoked,      \* every continuation invocation: the closure and its argument
  visited,      \* the calls of Interpreter.run in order: the node's kind and
                \* the number of entries in the buffer it was given
  outcome,      \* what PromiseRunner.run did: nothing yet, returned a, threw e
  self,         \* which call of PromiseRunner.run the variables above are of
  parked,       \* the other calls of PromiseRunner.run in progress, each
                \* suspended at an await (or not begun) with its own variables
  backend       \* the record the backend stores and the number of calls it
                \* has answered, or NoBackend: the client answers anything

vars == <<desc, ctrl, stack, clientCalls, clientReplies, thunkRuns, invoked,
          visited, outcome, self, parked, backend>>

----------------------------------------------------------------------------
(* Bounds of the model *)

MaxChain == 3     \* longest chain over the full alphabet of nodes
MaxTxChain == 5   \* longest chain over the write / commit / fail alphabet
MaxWrites == 3    \* most write nodes in a chain of writes only
MaxHandled == 3   \* longest chain part of which is wrapped in a handler
MaxYields == 3    \* most effects yielded by a generator function
MaxLog == 40      \* most entries kept in invoked and in visited
MinTimes == 2     \* retryN counters below -MinTimes are not told apart
MaxRetry == 2     \* largest argument of retryN and of retry's Recurs policy

\* invoked and visited record the first MaxLog entries of a run
Logged(log, entry) == IF Len(log) < MaxLog THEN Append(log, entry) ELSE log

----------------------------------------------------------------------------
(* Values.  Every value carries a tag t so that values of different JS     *)
(* types can be compared.                                                  *)

Undefined == [t |-> "undefined"]
Num(n) == [t |-> "number", n |-> n]
Str(s) == [t |-> "string", s |-> s]
Digits(d) == [t |-> "digits", d |-> d]      \* a digit-only string, as digits
NaN == [t |-> "NaN"]
\* the number 1.5, which is not an integer
OneAndAHalf == [t |-> "number", whole |-> 1, tenths |-> 5]
\* a number too large for Num: an integer given by its decimal digits
BigNum(d) == [t |-> "number", big |-> d]
Arr(items) == [t |-> "array", items |-> items]

RECURSIVE DigitsValue(_)
DigitsValue(d) ==
  IF d = <<>> THEN 0
  ELSE 10 * DigitsValue(SubSeq(d, 1, Len(d) - 1)) + d[Len(d)]

\* Arithmetic of JS numbers (IEEE 754 doubles) on the integers a revision
\* can be.  Integers of up to MaxSmallDigits digits are held in Num; larger
\* ones, up to 2^54, are held in BigNum by their decimal digits.  A double
\* holds every integer up to 2^53 and, between 2^53 and 2^54, the even ones.
MaxSmallDigits == 9
TwoTo53 == <<9, 0, 0, 7, 1, 9, 9, 2, 5, 4, 7, 4, 0, 9, 9, 2>>

RECURSIVE StripZeros(_)
StripZeros(d) ==
  IF Len(d) > 1 /\ d[1] = 0 THEN StripZeros(Tail(d)) ELSE d

RECURSIVE DigitsLessSameLen(_, _)
DigitsLessSameLen(a, b) ==
  IF a = <<>> THEN FALSE
  ELSE IF a[1] # b[1] THEN a[1] < b[1]
  ELSE DigitsLessSameLen(Tail(a), Tail(b))

\* a < b for integers given by their digits without leading zeros
DigitsLess(a, b) ==
  IF Len(a) # Len(b) THEN Len(a) < Len(b) ELSE DigitsLessSameLen(a, b)

RECURSIVE DigitsSucc(_)
DigitsSucc(d) ==
  IF d = <<>> THEN <<1>>
  ELSE IF d[Len(d)] < 9 THEN SubSeq(d, 1, Len(d) - 1) \o <<d[Len(d)] + 1>>
  ELSE DigitsSucc(SubSeq(d, 1, Len(d) - 1)) \o <<0>>

RECURSIVE DigitsPred(_)
DigitsPred(d) ==
  IF d[Len(d)] > 0 THEN SubSeq(d, 1, Len(d) - 1) \o <<d[Len(d)] - 1>>
  ELSE DigitsPred(SubSeq(d, 1, Len(d) - 1)) \o <<9>>

DigitsMod4(d) ==
  (IF Len(d) = 1 THEN d[1] ELSE 10 * d[Len(d) - 1] + d[Len(d)]) % 4

\* the double nearest to the integer d <= 2^54, ties to the even mantissa
RoundToDouble(d) ==
  IF ~DigitsLess(TwoTo53, d) \/ d[Len(d)] % 2 = 0 THEN d
  ELSE IF DigitsMod4(DigitsSucc(d)) = 0 THEN DigitsSucc(d)
  ELSE DigitsPred(d)

\* the number that is the integer d
NumberOfInteger(d) ==
  LET c == StripZeros(d)
  IN  IF Len(c) <= MaxSmallDigits THEN Num(DigitsValue(c))
      ELSE BigNum(RoundToDouble(c))

\* Number(x) for x a number, a digit-only string or undefined
ToNumber(x) ==
  CASE x.t = "number" -> x
    [] x.t = "digits" -> NumberOfInteger(x.d)
    [] OTHER -> NaN

RECURSIVE DigitsOf(_)
DigitsOf(n) ==
  IF n < 10 THEN <<n>> ELSE DigitsOf(n \div 10) \o <<n % 10>>

\* x + 1 for a number x
NumberPlusOne(x) ==
  CASE x = NaN -> NaN
    [] "n" \in DOMAIN x ->
         IF x.n < 0 THEN Num(x.n + 1)
         ELSE NumberOfInteger(DigitsSucc(DigitsOf(x.n)))
    [] OTHER -> BigNum(RoundToDouble(DigitsSucc(x.big)))

\* KError of models.ts: the normalized remote error
KError(id, code, message) ==
  [t |-> "KError", id |-> id, code |-> code, message |-> message]

\* Either (unnamed/part_000) extended with the rejected promise
Right(bulkRequests, a) ==
  [kind |-> "Right", bulkRequests |-> bulkRequests, value |-> a]
Left(e) == [kind |-> "Left", value |-> e]
Rejected(v) == [kind |-> "Rejected", reason |-> v]

\* KNewRecord / KRecord of models.ts
KNewRecord(app, value) == [t |-> "KNewRecord", app |-> app, value |-> value]
KRecord(value, app, id, revision) ==
  [t |-> "KRecord", value |-> value, app |-> app, id |-> id,
   revision |-> revision]

----------------------------------------------------------------------------
(* The effect tree KIOA and the builder API of kio.ts.  A closure is a     *)
(* record naming the function literal (fn) and the values it captured.     *)

Succeed(a) == [kind |-> "Succeed", value |-> a]
Fail(e) == [kind |-> "Fail", error |-> e]
Async(f) == [kind |-> "Async", f |-> f]
GetRecord(app, id) == [kind |-> "GetRecord", app |-> app, id |-> id]
GetRecords(app, fields, query) ==
  [kind |-> "GetRecords", app |-> app, fields |-> fields, query |-> query]
AddRecord(record) == [kind |-> "AddRecord", record |-> record]
AddRecords(records) == [kind |-> "AddRecords", records |-> records]
UpdateRecord(record) == [kind |-> "UpdateRecord", record |-> record]
UpdateRecords(records) == [kind |-> "UpdateRecords", records |-> records]
DeleteRecord(record) == [kind |-> "DeleteRecord", record |-> record]
DeleteRecords(records) == [kind |-> "DeleteRecords", records |-> records]
Commit == [kind |-> "Commit"]

\* The schemas of models.ts.  AppID, RecordID and Revision are the same
\* union: v.pipe(v.number(), v.integer()) or v.pipe(v.string(), v.digits())
IsInteger(x) == x.t = "number" /\ ("n" \in DOMAIN x \/ "big" \in DOMAIN x)
IsDigits(x) == x.t = "digits" /\ x.d # <<>>
AppID(x) == IsInteger(x) \/ IsDigits(x)
RecordID(x) == IsInteger(x) \/ IsDigits(x)
Revision(x) == IsInteger(x) \/ IsDigits(x)

\* validate(): a schema that does not match throws a ValidationError.  What
\* an expression that throws evaluates to is written Throw(error).
ValidationError(schema) == [t |-> "ValidationError", schema |-> schema]
Throw(error) == [kind |-> "throw", error |-> error]

\* new KRecord({app, id, value, revision})
NewKRecord(value, app, id, revision) ==
  IF AppID(app) /\ RecordID(id) /\ (revision = Undefined \/ Revision(revision))
  THEN KRecord(value, app, id, revision)
  ELSE Throw(ValidationError("KRecordConstructor"))

\* v.instance(KRecord)
IsKRecord(x) == "t" \in DOMAIN x /\ x.t = "KRecord"

\* The CRUD constructors of KIO: validate(schema, args), then the node
getRecord(app, id) ==
  IF AppID(app) /\ RecordID(id) THEN GetRecord(app, id)
  ELSE Throw(ValidationError("GetRecordArgs"))
getRecords(app, fields, query) ==
  IF AppID(app) THEN GetRecords(app, fields, query)
  ELSE Throw(ValidationError("GetRecordsArgs"))
addRecord(app, record) ==
  IF AppID(app) THEN AddRecord(KNewRecord(app, record))
  ELSE Throw(ValidationError("AddRecordArgs"))
addRecords(app, records) ==
  IF AppID(app) /\ Len(records) >= 1
  THEN AddRecords([i \in 1..Len(records) |-> KNewRecord(app, records[i])])
  ELSE Throw(ValidationError("AddRecordsArgs"))
updateRecord(record) ==
  IF IsKRecord(record) THEN UpdateRecord(record)
  ELSE Throw(ValidationError("UpdateRecordArgs"))
updateRecords(records) ==
  IF (\A i \in 1..Len(records) : IsKRecord(records[i])) /\ Len(records) >= 1
  THEN UpdateRecords(records)
  ELSE Throw(ValidationError("UpdateRecordsArgs"))
deleteRecord(record) ==
  IF IsKRecord(record) THEN DeleteRecord(record)
  ELSE Throw(ValidationError("DeleteRecordArgs"))
deleteRecords(records) ==
  IF (\A i \in 1..Len(records) : IsKRecord(records[i])) /\ Len(records) >= 1
  THEN DeleteRecords(records)
  ELSE Throw(ValidationError("DeleteRecordsArgs"))

\* KIO.andThen(fn)(kio): f is (a) => fn(a).kioa
andThen(kio, fn) ==
  [kind |-> "AndThen", self |-> kio, f |-> [fn |-> "andThen.f", user |-> fn]]

\* kio.flatMap(f) of the revision interpreted by InterpreterImpl
\* (unnamed/part_010): f is (a, s) => f(a, s).kioa
flatMap(kio, fn) ==
  [kind |-> "FlatMap", self |-> kio, f |-> [fn |-> "flatMap.f", user |-> fn]]

\* KIO.map(f)(kio): f is (a) => KIO.succeed(f(a)).kioa
map(kio, f) ==
  [kind |-> "AndThen", self |-> kio, f |-> [fn |-> "map.f", user |-> f]]

\* kio.fold(success, failure)
fold(kio, success, failure) ==
  [kind |-> "Fold", self |-> kio,
   success |-> [fn |-> "fold.success", user |-> success],
   failure |-> [fn |-> "fold.failure", user |-> failure]]

\* a catch that gives its function the successes and hands failures on
catchHandlesSuccess(kio, f) == fold(kio, f, [u |-> "succeed"])

\* kio.catch(f) is this.fold((a) => KIO.succeed(a), f)
catch(kio, f) == fold(kio, [u |-> "succeed"], f)

\* n - 1 for the counter of retryN; every n at or below -MinTimes stands for
\* all the numbers below it (n - 1 is below it again and is not 0)
Minus1(n) == IF n <= -MinTimes THEN n ELSE n - 1

\* loop(n) of retryN: this.catch((e) => (n === 0 ? KIO.fail(e) : loop(n - 1)))
retryLoop(kio, n) == catch(kio, [u |-> "retryN.handler", self |-> kio, n |-> n])

\* kio.retryN(times)
retryN(kio, times) == retryLoop(kio, times)

\* loop(n) of retry, case "Recurs" (unnamed/part_009):
\* this.catch((e) => (n < 0 ? KIO.fail(e) : loop(n - 1)))
retryRecursLoop(kio, n) ==
  catch(kio, [u |-> "retry.handler", self |-> kio, n |-> n])

\* kio.retry(policy), policy = {kind: "Recurs", times}
Recurs(times) == [kind |-> "Recurs", times |-> times]
retry(kio, policy) ==
  CASE policy.kind = "Recurs" -> retryRecursLoop(kio, policy.times)

\* The functions given to KRecord.update, as data:
\* (value) => value, (value) => ({...value, [field]: to}) and a => g(f(a))
Identity == [g |-> "identity"]
SetField(field, to) == [g |-> "set", field |-> field, to |-> to]
Compose(f, g) == [g |-> "compose", first |-> f, then |-> g]

RECURSIVE FieldsApply(_, _)
FieldsApply(f, value) ==
  CASE f.g = "identity" -> value
    [] f.g = "set" ->
         [c \in DOMAIN value \cup {f.field} |->
            IF c = f.field THEN f.to ELSE value[c]]
    [] f.g = "compose" -> FieldsApply(f.then, FieldsApply(f.first, value))

\* a.update(f) where a is not a KRecord: TypeError, a.update is not a function
NotAFunction == [t |-> "TypeError", message |-> "a.update is not a function"]

\* update(f) handing on an undefined revision
RecordUpdateDropsRevision(record, f) ==
  NewKRecord(FieldsApply(f, record.value), record.app, record.id, Undefined)

\* KRecord.update(f): new KRecord({app, id, value: f(this.value), revision})
RecordUpdate(record, f) ==
  NewKRecord(FieldsApply(f, record.value), record.app, record.id,
             record.revision)

\* A generator function as data: the effects it yields with yield*, each a
\* function of the value the previous yield* evaluated to, and what it returns
Generator(yields, ret) == [yields |-> yields, ret |-> ret]

\* return a (the value of the last yield*), or return a constant
ReturnLast == [r |-> "last"]
ReturnValue(value) == [r |-> "value", value |-> value]
GenReturn(ret, a) == IF ret.r = "last" THEN a ELSE ret.value

\* The calls of next() made so far on the iterator of gen(g): the one of
\* loop(f()) at construction and one for every invocation of (a) => loop(itr, a)
NextCalls(g) ==
  1 + Cardinality({i \in DOMAIN invoked :
                     /\ invoked[i].f.fn = "andThen.f"
                     /\ invoked[i].f.user.u = "gen.loop"
                     /\ invoked[i].f.user.g = g})

RECURSIVE UserApply(_, _)

\* itr.next(a) on the iterator of g after calls earlier calls of next():
\* yield* kio hands kio out and evaluates to a; a finished iterator answers
\* {done: true, value: undefined}
IteratorNext(g, calls, a) ==
  IF calls < Len(g.yields)
  THEN [done |-> FALSE, value |-> UserApply(g.yields[calls + 1], a)]
  ELSE IF calls = Len(g.yields)
       THEN [done |-> TRUE, value |-> GenReturn(g.ret, a)]
       ELSE [done |-> TRUE, value |-> Undefined]

\* loop(itr, a) calling itr.next() without the value
genLoopDropsValue(g, calls, a) ==
  LET next == IteratorNext(g, calls, Undefined)
  IN  IF next.done THEN Succeed(next.value)
      ELSE andThen(next.value, [u |-> "gen.loop", g |-> g])

\* loop(itr, a) of KIO.gen
genLoop(g, calls, a) ==
  LET next == IteratorNext(g, calls, a)
  IN  IF next.done THEN Succeed(next.value)
      ELSE andThen(next.value, [u |-> "gen.loop", g |-> g])

\* KIO.gen(f): loop(f())
gen(g) == genLoop(g, 0, Undefined)

\* The same statements written with andThen:
\* e1.andThen(a1 => e2(a1).andThen(... => KIO.succeed(r)))
andThenChain(g, k, a) ==
  IF k <= Len(g.yields)
  THEN andThen(UserApply(g.yields[k], a),
               [u |-> "andThenChain.f", g |-> g, k |-> k + 1])
  ELSE Succeed(GenReturn(g.ret, a))

\* A user function given to andThen / fold / catch, applied to x
UserApply(u, x) ==
  CASE u.u = "const" -> u.kio                       \* () => kio
    [] u.u = "succeed" -> Succeed(x)                \* (a) => KIO.succeed(a)
    [] u.u = "updateRecord" ->       \* (a) => KIO.updateRecord({record: a.update(f)})
         IF IsKRecord(x) THEN UpdateRecord(RecordUpdate(x, u.f))
         ELSE Throw(NotAFunction)
    [] u.u = "updateRecordTwice" ->
         \* (a) => KIO.updateRecord({record: a.update(f).update(g)})
         IF IsKRecord(x) THEN UpdateRecord(RecordUpdate(RecordUpdate(x, u.f), u.g))
         ELSE Throw(NotAFunction)
    [] u.u = "retryN.handler" ->
         IF u.n = 0 THEN Fail(x) ELSE retryLoop(u.self, Minus1(u.n))
    [] u.u = "retry.handler" ->
         IF u.n < 0 THEN Fail(x) ELSE retryRecursLoop(u.self, u.n - 1)
    [] u.u = "gen.loop" -> genLoop(u.g, NextCalls(u.g), x)
    [] u.u = "andThenChain.f" -> andThenChain(u.g, u.k, x)

\* A user function given to map, applied to x: (a) => [a]
PureApply(g, x) == Arr(<<x>>)

\* The closures stored in AndThen.f, Fold.success and Fold.failure
Apply(f, x) ==
  IF f.fn = "map.f" THEN Succeed(PureApply(f.user, x))
  ELSE UserApply(f.user, x)

----------------------------------------------------------------------------
(* Record data used by the effects of the model *)

ProhibitedTypes ==
  {"RECORD_NUMBER", "MODIFIER", "CREATOR", "UPDATED_TIME", "CREATED_TIME"}

\* a field object { type?, value }; type "" stands for an absent type
Field(type, value) == [type |-> type, value |-> value]

FieldsA ==
  [text |-> Field("SINGLE_LINE_TEXT", Str("a")),
   created |-> Field("CREATED_TIME", Str("t0"))]
FieldsB == [text |-> Field("", Str("b"))]
\* a field of every type that cannot be updated, a typed and an untyped field
FieldsAll ==
  [text |-> Field("SINGLE_LINE_TEXT", Str("a")),
   note |-> Field("", Str("n")),
   number |-> Field("RECORD_NUMBER", Str("1")),
   modifier |-> Field("MODIFIER", Str("m")),
   creator |-> Field("CREATOR", Str("c")),
   updated |-> Field("UPDATED_TIME", Str("t1")),
   created |-> Field("CREATED_TIME", Str("t0"))]

NewRecord1 == KNewRecord(Num(1), FieldsB)
NewRecord2 == KNewRecord(Num(1), FieldsA)
Record1 == KRecord(FieldsA, Num(1), Num(5), Num(1))
Record2 == KRecord(FieldsB, Num(2), Digits(<<7>>), Undefined)

FieldFunctions ==
  {Identity,
   SetField("text", Field("", Str("b"))),
   SetField("modifier", Field("MODIFIER", Str("m")))}

\* the revisions of the records given to updateRecord
Revisions ==
  {Undefined, Num(0), Num(1), Digits(<<7>>), Digits(<<0, 7>>),
   BigNum(TwoTo53), Digits(DigitsSucc(TwoTo53))}

\* the rows the backend may answer a read with
ServerRecord(fields, id, revision) ==
  [c \in DOMAIN fields \cup {"$id", "$revision"} |->
     IF c = "$id" THEN Field("__ID__", id)
     ELSE IF c = "$revision" THEN Field("__REVISION__", revision)
     ELSE fields[c]]
ServerRecordA == ServerRecord(FieldsA, Num(5), Num(1))
ServerRecordB == ServerRecord(FieldsB, Digits(<<7>>), Digits(<<2>>))
ServerRecords == {ServerRecordA, ServerRecordB}

\* the errors the backend may answer with
RemoteErrors ==
  {KError("e1", "GAIA_CO02", "conflict"), KError("e2", "GAIA_RE01", "not found")}
ClientCrash == Str("TypeError")     \* not a KintoneRestAPIError

\* an Async thunk: what the promise it returns does
ThunkOk == [resolves |-> TRUE, with |-> Num(1)]
ThunkRej == [resolves |-> FALSE, with |-> Str("thunkError")]

----------------------------------------------------------------------------
(* The effects the model runs.  A root effect is a chain                   *)
(*   e1.andThen(() => e2).map(g). ... .andThen(() => en)                   *)
(* of which the part steps[from..to] may be wrapped in a handler (catch,   *)
(* fold or retryN).                                                        *)

WriteLeaves ==
  {AddRecord(NewRecord1), AddRecords(<<NewRecord1, NewRecord2>>),
   UpdateRecord(Record1), UpdateRecords(<<Record1, Record2>>),
   DeleteRecord(Record2), DeleteRecords(<<Record1, Record2>>)}

FullLeaves ==
  {Succeed(Num(1)), Fail(Str("error")), Async(ThunkOk), Async(ThunkRej),
   GetRecord(Num(1), Num(5)),
   GetRecords(Num(1), [t |-> "fields", names |-> <<"text">>], Undefined),
   AddRecord(NewRecord1), UpdateRecord(Record1), DeleteRecord(Record2),
   Commit}

\* the nodes InterpreterImpl (unnamed/part_013) has a case for
FlatMapLeaves ==
  {Succeed(Num(1)), Fail(Str("error")), AddRecord(NewRecord1),
   UpdateRecord(Record1), DeleteRecord(Record2)}

TxLeaves ==
  {AddRecord(NewRecord1), UpdateRecord(Record1), Commit, Fail(Str("error")),
   Async(ThunkRej)}

HandledLeaves ==
  {AddRecord(NewRecord1), Commit, Fail(Str("error")), Async(ThunkRej)}

Effect(kio) == [op |-> "effect", kio |-> kio]
ThenStep(kio) == [op |-> "andThen", kio |-> kio]
MapStep == [op |-> "map"]

NoHandler == [h |-> "none"]
Const(kio) == [u |-> "const", kio |-> kio]

\* the steps a chain over the leaves L may start with and continue with
First(L) == {Effect(k) : k \in L}
Later(L, withMap) ==
  {ThenStep(k) : k \in L} \cup (IF withMap THEN {MapStep} ELSE {})

Plain(steps) == [steps |-> steps, h |-> NoHandler, from |-> 0, to |-> 0]
Handled(steps, h, from, to) ==
  [steps |-> steps, h |-> h, from |-> from, to |-> to]

Handlers ==
  {[h |-> "catch", f |-> Const(Succeed(Str("recovered")))],
   [h |-> "catch", f |-> Const(Commit)],
   [h |-> "fold", success |-> Const(Succeed(Str("folded"))),
                  failure |-> Const(Fail(Str("refailed")))]}
  \cup {[h |-> "retryN", times |-> k] : k \in 0..MaxRetry}
  \cup {[h |-> "retry", policy |-> Recurs(k)] : k \in 0..MaxRetry}

\* any chain of up to MaxChain steps over all the node kinds
GeneralProgram(d) ==
  \E m \in 1..MaxChain : \E f \in First(FullLeaves) :
    \E r \in [1..(m - 1) -> Later(FullLeaves, TRUE)] : d = Plain(<<f>> \o r)

\* up to MaxWrites write nodes, alone or followed by one Commit
WriteProgram(d) ==
  \E m \in 1..MaxWrites : \E f \in First(WriteLeaves) :
    \E r \in [1..(m - 1) -> Later(WriteLeaves, FALSE)] :
      \E tail \in {<<>>, <<ThenStep(Commit)>>} : d = Plain(<<f>> \o r \o tail)

\* up to MaxTxChain writes, commits and failures
TxProgram(d) ==
  \E m \in 1..MaxTxChain : \E f \in First(TxLeaves) :
    \E r \in [1..(m - 1) -> Later(TxLeaves, FALSE)] : d = Plain(<<f>> \o r)

\* up to MaxHandled steps of which steps[from..to] are wrapped in a handler
HandledProgram(d) ==
  \E m \in 1..MaxHandled : \E f \in First(HandledLeaves) :
    \E r \in [1..(m - 1) -> Later(HandledLeaves, FALSE)] :
      \E h \in Handlers : \E from \in 1..m : \E to \in from..m :
        d = Handled(<<f>> \o r, h, from, to)

\* updateRecord({record: r.update(f)}), alone or followed by a Commit
UpdateProgram(d) ==
  \E revision \in Revisions : \E f \in FieldFunctions :
    \E fields \in {FieldsA, FieldsAll} :
      \E tail \in {<<>>, <<ThenStep(Commit)>>} :
        d = Plain(<<Effect(UpdateRecord(
                     RecordUpdate(KRecord(fields, Num(1), Num(5), revision), f)))>>
                  \o tail)

\* getRecord(...).andThen((a) => updateRecord({record: a.update(f)})),
\* alone or followed by a Commit
ThenUpdate(f, commit) == [h |-> "thenUpdate", f |-> f, commit |-> commit]
ReadUpdateProgram(d) ==
  \E id \in {Num(5), Digits(<<7>>)} : \E f \in FieldFunctions :
    \E commit \in BOOLEAN :
      d = Handled(<<Effect(GetRecord(Num(1), id))>>, ThenUpdate(f, commit), 1, 1)

\* KIO.succeed(record).andThen((a) => KIO.updateRecord({record: ...})) with
\* a.update(f), a.update(f).update(g) or a.update((v) => g(f(v)))
UpdateForms == {"once", "twice", "composed"}
ThenUpdates(form, f, g) == [h |-> "thenUpdates", form |-> form, f |-> f, g |-> g]
UpdatedFields ==
  FieldFunctions \cup {SetField("text", Field("", Str("c")))}
UpdatedRecords ==
  {NewKRecord(fields, Num(1), Num(5), revision) :
     fields \in {FieldsA, FieldsAll},
     revision \in {Undefined, Num(1), Digits(<<0, 7>>)}}
  \cup {Record2}
RecordUpdateProgram(d) ==
  \E record \in UpdatedRecords : \E f \in UpdatedFields :
    \E form \in UpdateForms :
      \E g \in IF form = "once" THEN {Identity} ELSE UpdatedFields :
        d = Handled(<<Effect(Succeed(record))>>, ThenUpdates(form, f, g), 1, 1)

\* getRecords({app, fields, query}) alone
FieldNames(names) == [t |-> "fields", names |-> names]
FieldLists ==
  {Undefined, FieldNames(<<>>), FieldNames(<<"text">>),
   FieldNames(<<"text", "$id">>)}
ReadManyProgram(d) ==
  \E fields \in FieldLists : \E query \in {Undefined, Str("$id = 5")} :
    d = Plain(<<Effect(GetRecords(Num(1), fields, query))>>)

\* plural writes given an empty array: through the constructors of KIO, and
\* as nodes handed to the interpreter as they are
EmptyWrites ==
  {addRecords(Num(1), <<>>), updateRecords(<<>>), deleteRecords(<<>>),
   AddRecords(<<>>), UpdateRecords(<<>>), DeleteRecords(<<>>)}

\* an empty plural write, first or after a write, plain or under a handler
EmptyWriteProgram(d) ==
  \E w \in EmptyWrites :
    \E steps \in {<<Effect(w)>>, <<Effect(AddRecord(NewRecord1)), ThenStep(w)>>,
                  <<Effect(AddRecord(NewRecord1)), ThenStep(w), ThenStep(Commit)>>} :
      \/ d = Plain(steps)
      \/ \E h \in Handlers : \E from \in 1..2 :
           from <= Len(steps) /\ d = Handled(steps, h, from, Len(steps))

\* the values given as an app id, a record id or a revision
IdValues ==
  {Num(0), Num(1), Num(-1), BigNum(TwoTo53), Digits(<<7>>), Digits(<<0, 7>>),
   OneAndAHalf, NaN, Str("abc"), Str(""), Str("-1"), Undefined}

\* the constructor calls an identifier is given to, and the argument it is
IdSlots ==
  {"getRecord.app", "getRecord.id", "getRecords.app", "addRecord.app",
   "addRecords.app", "updateRecord.app", "deleteRecord.id",
   "updateRecords.revision", "deleteRecords.revision"}

\* KIO.updateRecord({record: new KRecord(...)}): the record is built first
WithRecord(record, constructed) ==
  IF "kind" \in DOMAIN record THEN record ELSE constructed

\* the constructor call of slot with the identifier x
IdCall(slot, x) ==
  CASE slot = "getRecord.app" -> getRecord(x, Num(5))
    [] slot = "getRecord.id" -> getRecord(Num(1), x)
    [] slot = "getRecords.app" -> getRecords(x, Undefined, Undefined)
    [] slot = "addRecord.app" -> addRecord(x, FieldsB)
    [] slot = "addRecords.app" -> addRecords(x, <<FieldsB>>)
    [] slot = "updateRecord.app" ->
         LET r == NewKRecord(FieldsB, x, Num(5), Num(1))
         IN  WithRecord(r, updateRecord(r))
    [] slot = "deleteRecord.id" ->
         LET r == NewKRecord(FieldsB, Num(1), x, Num(1))
         IN  WithRecord(r, deleteRecord(r))
    [] slot = "updateRecords.revision" ->
         LET r == NewKRecord(FieldsB, Num(1), Num(5), x)
         IN  WithRecord(r, updateRecords(<<r>>))
    [] slot = "deleteRecords.revision" ->
         LET r == NewKRecord(FieldsB, Num(1), Num(5), x)
         IN  WithRecord(r, deleteRecords(<<r>>))

\* the call as the root effect, or made by a continuation of andThen
IdProgram(slot, x, lazy) ==
  IF lazy
  THEN Plain(<<Effect(Succeed(Num(1))), ThenStep(IdCall(slot, x))>>)
  ELSE Plain(<<Effect(IdCall(slot, x))>>)

IdentifierProgram(d) ==
  \E slot \in IdSlots : \E x \in IdValues : \E lazy \in BOOLEAN :
    d = IdProgram(slot, x, lazy)

\* the effects a generator of the model yields, as functions of the value fed
YieldFns ==
  {Const(Succeed(Num(1))), Const(AddRecord(NewRecord1)), Const(Fail(Str("error"))),
   Const(Commit), [u |-> "succeed"]}

Returns == {ReturnLast, ReturnValue(Num(3))}

\* KIO.gen(function* () {...}), and the same statements written with andThen
Written(form, g) ==
  [steps |-> <<>>, h |-> [h |-> form, g |-> g], from |-> 0, to |-> 0]

\* a generator that yields up to MaxYields effects, or one that reads a
\* record, updates what it read and commits
GenProgram(d) ==
  \E form \in {"gen", "andThen"} :
    \/ \E n \in 0..MaxYields : \E yields \in [1..n -> YieldFns] :
         \E ret \in Returns : d = Written(form, Generator(yields, ret))
    \/ \E f \in FieldFunctions :
         d = Written(form,
                     Generator(<<Const(GetRecord(Num(1), Num(5))),
                                 [u |-> "updateRecord", f |-> f], Const(Commit)>>,
                               ReturnLast))

\* KIO.gen(function* () {...}).retryN(times), and the andThen chain of the
\* same statements retried, where one statement is a read that may fail
Retried(form, g, times) ==
  [steps |-> <<>>, h |-> [h |-> form, g |-> g, times |-> times],
   from |-> 0, to |-> 0]
RetriedGenerators ==
  {Generator(<<Const(GetRecord(Num(1), Num(5)))>>, ReturnLast),
   Generator(<<Const(Succeed(Num(1))), Const(GetRecord(Num(1), Num(5)))>>,
             ReturnLast),
   Generator(<<Const(AddRecord(NewRecord1)), Const(GetRecord(Num(1), Num(5))),
               Const(Commit)>>, ReturnValue(Num(3)))}
GenRetryProgram(d) ==
  \E form \in {"gen.retryN", "andThen.retryN"} : \E g \in RetriedGenerators :
    \E times \in 0..MaxRetry : d = Retried(form, g, times)

\* a write and a read that may fail, retried together, then a Commit; alone
\* or after another write
RetriedWriteProgram(d) ==
  \E k \in 0..MaxRetry :
    \E h \in {[h |-> "retryN", times |-> k], [h |-> "retry", policy |-> Recurs(k)]} :
      \/ d = Handled(<<Effect(AddRecord(NewRecord1)),
                       ThenStep(GetRecord(Num(1), Num(5))), ThenStep(Commit)>>,
                     h, 1, 2)
      \/ d = Handled(<<Effect(UpdateRecord(Record1)),
                       ThenStep(AddRecord(NewRecord1)),
                       ThenStep(GetRecord(Num(1), Num(5))), ThenStep(Commit)>>,
                     h, 2, 3)

\* up to MaxWrites write nodes chained with flatMap
FlatMapped == [h |-> "flatMap"]
FlatMapProgram(d) ==
  \E m \in 1..MaxWrites : \E f \in First(FlatMapLeaves) :
    \E r \in [1..(m - 1) -> Later(FlatMapLeaves, FALSE)] :
      d = Handled(<<f>> \o r, FlatMapped, 1, m)

\* an effect that always fails, retried with a negative number of times
NegativeRetryProgram(d) ==
  \E steps \in {<<Effect(Fail(Str("error")))>>,
                 <<Effect(AddRecord(NewRecord1)), ThenStep(Fail(Str("error")))>>} :
    d = Handled(steps, [h |-> "retryN", times |-> -1], 1, Len(steps))

Program(d) ==
  \/ GenRetryProgram(d)
  \/ RetriedWriteProgram(d)
  \/ FlatMapProgram(d)
  \/ RecordUpdateProgram(d)
  \/ GenProgram(d)
  \/ IdentifierProgram(d)
  \/ EmptyWriteProgram(d)
  \/ ReadManyProgram(d)
  \/ ReadUpdateProgram(d)
  \/ GeneralProgram(d) \/ WriteProgram(d) \/ TxProgram(d) \/ HandledProgram(d)
  \/ UpdateProgram(d)

StepOnto(kio, s) ==
  IF s.op = "map" THEN map(kio, "wrap") ELSE andThen(kio, Const(s.kio))

RECURSIVE ChainOnto(_, _)
ChainOnto(kio, steps) ==
  IF steps = <<>> THEN kio
  ELSE ChainOnto(StepOnto(kio, Head(steps)), Tail(steps))

Chain(steps) == ChainOnto(steps[1].kio, Tail(steps))

Handle(h, kio) ==
  CASE h.h = "catch" -> catch(kio, h.f)
    [] h.h = "fold" -> fold(kio, h.success, h.failure)
    [] h.h = "retryN" -> retryN(kio, h.times)
    [] h.h = "retry" -> retry(kio, h.policy)
    [] h.h = "thenUpdates" ->
         andThen(kio,
                 CASE h.form = "once" -> [u |-> "updateRecord", f |-> h.f]
                   [] h.form = "twice" ->
                        [u |-> "updateRecordTwice", f |-> h.f, g |-> h.g]
                   [] h.form = "composed" ->
                        [u |-> "updateRecord", f |-> Compose(h.f, h.g)])
    [] h.h = "thenUpdate" ->
         LET update == andThen(kio, [u |-> "updateRecord", f |-> h.f])
         IN  IF h.commit THEN andThen(update, Const(Commit)) ELSE update

\* steps[1].flatMap(() => steps[2]).flatMap(() => steps[3]) ...
RECURSIVE FlatMapOnto(_, _)
FlatMapOnto(kio, steps) ==
  IF steps = <<>> THEN kio
  ELSE FlatMapOnto(flatMap(kio, Const(Head(steps).kio)), Tail(steps))

FlatMapChain(steps) == FlatMapOnto(steps[1].kio, Tail(steps))

\* the root effect described by d
Build(d) ==
  IF d.h = NoHandler THEN Chain(d.steps)
  ELSE IF d.h.h = "gen" THEN gen(d.h.g)
  ELSE IF d.h.h = "andThen" THEN andThenChain(d.h.g, 1, Undefined)
  ELSE IF d.h.h = "flatMap" THEN FlatMapChain(d.steps)
  ELSE IF d.h.h = "gen.retryN" THEN retryN(gen(d.h.g), d.h.times)
  ELSE IF d.h.h = "andThen.retryN"
       THEN retryN(andThenChain(d.h.g, 1, Undefined), d.h.times)
  ELSE LET pre == SubSeq(d.steps, 1, d.from - 1)
           mid == SubSeq(d.steps, d.from, d.to)
           post == SubSeq(d.steps, d.to + 1, Len(d.steps))
           inner == Handle(d.h, Chain(mid))
       IN  IF d.from = 1 THEN ChainOnto(inner, post)
           ELSE ChainOnto(andThen(Chain(pre), Const(inner)), post)

----------------------------------------------------------------------------
(* Helpers of the interpreter (packages/core/src/runner/runner.ts) *)

\* an update that sends every field of the record
removeProhibitedFieldsForUpdateNot(record) == record

removeProhibitedFieldsForUpdate(record) ==
  [c \in {c \in DOMAIN record :
            record[c].type = "" \/ record[c].type \notin ProhibitedTypes}
     |-> record[c]]

\* Number(record.revision) + 1
RevisionPlusOne(revision) == NumberPlusOne(ToNumber(revision))

\* a delete entry that carries the revision as it is, undefined included
RevisionAsGiven(revision) == revision

\* record.revision ?? -1
RevisionOrMinusOne(revision) ==
  IF revision = Undefined THEN Num(-1) ELSE revision

AddRecordRequest(record) ==
  [method |-> "POST", api |-> "/k/v1/record.json",
   payload |-> [app |-> record.app, record |-> record.value]]

AddRecordsRequest(records) ==
  [method |-> "POST", api |-> "/k/v1/records.json",
   payload |-> [app |-> records[1].app,
                records |-> [i \in 1..Len(records) |-> records[i].value]]]

\* an update entry that carries the revision the update is expected to produce
UpdateRecordRequestNextRevision(record) ==
  [method |-> "PUT", api |-> "/k/v1/record.json",
   payload |-> [app |-> record.app, id |-> record.id,
                record |-> removeProhibitedFieldsForUpdate(record.value),
                revision |-> RevisionPlusOne(record.revision)]]

\* an update entry that asks for no revision check
UpdateRecordRequestNoRevision(record) ==
  [method |-> "PUT", api |-> "/k/v1/record.json",
   payload |-> [app |-> record.app, id |-> record.id,
                record |-> removeProhibitedFieldsForUpdate(record.value),
                revision |-> Undefined]]

UpdateRecordRequest(record) ==
  [method |-> "PUT", api |-> "/k/v1/record.json",
   payload |-> [app |-> record.app, id |-> record.id,
                record |-> removeProhibitedFieldsForUpdate(record.value),
                revision |-> record.revision]]

UpdateRecordsRequest(records) ==
  [method |-> "PUT", api |-> "/k/v1/records.json",
   payload |->
     [app |-> records[1].app,
      records |-> [i \in 1..Len(records) |->
                     [id |-> records[i].id,
                      record |-> removeProhibitedFieldsForUpdate(records[i].value),
                      revision |-> records[i].revision]]]]

DeleteRecordRequest(record) ==
  [method |-> "DELETE", api |-> "/k/v1/records.json",
   payload |-> [app |-> record.app, ids |-> <<record.id>>,
                revisions |-> <<RevisionOrMinusOne(record.revision)>>]]

DeleteRecordsRequest(records) ==
  [method |-> "DELETE", api |-> "/k/v1/records.json",
   payload |->
     [app |-> records[1].app,
      ids |-> [i \in 1..Len(records) |-> records[i].id],
      revisions |-> [i \in 1..Len(records) |->
                       RevisionOrMinusOne(records[i].revision)]]]

\* the record UpdateRecord / UpdateRecords succeed with
UpdatedRecord(record) ==
  KRecord(record.value, record.app, record.id, RevisionPlusOne(record.revision))

\* a buffer that puts the newest request first
EnqueueAtFront(bulkRequests, request) == <<request>> \o bulkRequests

\* [...bulkRequests, request]
Enqueue(bulkRequests, request) == Append(bulkRequests, request)

\* new Error("No records provided for the <op> records operation. ...")
NoRecordsError(op) == [t |-> "Error", op |-> op]

----------------------------------------------------------------------------
(* The machine *)

Run(bulkRequests, kioa) ==
  [mode |-> "run", bulkRequests |-> bulkRequests, kioa |-> kioa]
Await(on, bulkRequests, kioa) ==
  [mode |-> "await", on |-> on, bulkRequests |-> bulkRequests, kioa |-> kioa]
Settled(r) == [mode |-> "settled", result |-> r]
Done(r) == [mode |-> "done", result |-> r]

\* what a client call comes back with
ReplyLeft(e) == [kind |-> "Left", value |-> e]
ReplyRight(a) == [kind |-> "Right", value |-> a]
ReplyThrow(v) == [kind |-> "throw", value |-> v]

\* The error thrown while the expression that builds kio is evaluated: the
\* receiver of a chain of andThen / fold / catch calls is built first.
NoThrow == [t |-> "none"]
RECURSIVE ThrownBy(_)
ThrownBy(kio) ==
  CASE kio.kind = "throw" -> kio.error
    [] kio.kind \in {"AndThen", "Fold", "FlatMap"} -> ThrownBy(kio.self)
    [] OTHER -> NoThrow

\* the effect was never built: the expression building it threw
Unbuilt(error) == [mode |-> "unbuilt", error |-> error]

\* this.run(bulkRequests, f(a)) inside a .then callback: when f(a) throws,
\* the promise of the interpreter rejects
Continue(bulkRequests, kio) ==
  IF ThrownBy(kio) = NoThrow THEN Run(bulkRequests, kio)
  ELSE Settled(Rejected(ThrownBy(kio)))

Running(kind) == ctrl.mode = "run" /\ ctrl.kioa.kind = kind
Awaiting(on) == ctrl.mode = "await" /\ ctrl.on = on
Enter ==
  visited' = Logged(visited, [kind |-> ctrl.kioa.kind,
                              pending |-> Len(ctrl.bulkRequests)])

\* this.interpreter.run([], kio.kioa): PromiseRunner.run starts from []
Start(d) ==
  IF ThrownBy(Build(d)) = NoThrow THEN Run(<<>>, Build(d))
  ELSE Unbuilt(ThrownBy(Build(d)))

\* PromiseRunner.run is called with the effect desc describes
Started ==
  /\ ctrl = Start(desc)
  /\ stack = <<>>
  /\ clientCalls = <<>>
  /\ clientReplies = <<>>
  /\ thunkRuns = 0
  /\ invoked = <<>>
  /\ visited = <<>>
  /\ outcome = [kind |-> "none"]

\* no backend is assumed
NoBackend == [revision |-> -1]

\* one call of PromiseRunner.run
Alone == self = 1 /\ parked = <<>> /\ backend = NoBackend

Init == Program(desc) /\ Started /\ Alone

\* as Init, and retryN may also be given a negative number
InitAnyTimes ==
  (Program(desc) \/ NegativeRetryProgram(desc)) /\ Started /\ Alone

\* case "Succeed"
RunSucceed ==
  /\ Running("Succeed")
  /\ ctrl' = Settled(Right(ctrl.bulkRequests, ctrl.kioa.value))
  /\ Enter
  /\ UNCHANGED <<desc, stack, clientCalls, clientReplies, thunkRuns, invoked,
                 outcome, self, parked, backend>>

\* case "Fail"
RunFail ==
  /\ Running("Fail")
  /\ ctrl' = Settled(Left(ctrl.kioa.error))
  /\ Enter
  /\ UNCHANGED <<desc, stack, clientCalls, clientReplies, thunkRuns, invoked,
                 outcome, self, parked, backend>>

\* case "Async": F.async(kioa.f) calls the thunk
RunAsync ==
  /\ Running("Async")
  /\ thunkRuns' = thunkRuns + 1
  /\ ctrl' = Await("thunk", ctrl.bulkRequests, ctrl.kioa)
  /\ Enter
  /\ UNCHANGED <<desc, stack, clientCalls, clientReplies, invoked, outcome, self, parked, backend>>

\* an async that turns a rejection into a success with undefined
PromiseEitherAsyncSwallow(f, bulkRequests) ==
  IF f.resolves THEN Right(bulkRequests, f.with)
  ELSE Right(bulkRequests, Undefined)

\* promiseEither.async: f().then((a) => new Right(a)); there is no rejection
\* handler, so a rejected thunk rejects the promise of the interpreter
PromiseEitherAsync(f, bulkRequests) ==
  IF f.resolves THEN Right(bulkRequests, f.with) ELSE Rejected(f.with)

\* the thunk's promise settles; F.flatMap(async, (a) => F.succeed([bulkRequests, a]))
AsyncSettle ==
  /\ Awaiting("thunk")
  /\ ctrl' = Settled(PromiseEitherAsync(ctrl.kioa.f, ctrl.bulkRequests))
  /\ UNCHANGED <<desc, stack, clientCalls, clientReplies, thunkRuns, invoked,
                 visited, outcome, self, parked, backend>>

\* case "AndThen": r1 = this.run(bulkRequests, kioa.self); F.flatMap(r1, ...)
RunAndThen ==
  /\ Running("AndThen")
  /\ stack' = <<[frame |-> "AndThen", f |-> ctrl.kioa.f]>> \o stack
  /\ ctrl' = Run(ctrl.bulkRequests, ctrl.kioa.self)
  /\ Enter
  /\ UNCHANGED <<desc, clientCalls, clientReplies, thunkRuns, invoked, outcome, self, parked, backend>>

\* a flatMap that calls f whatever r1 is
FlatMapResumeNoShortCircuit ==
  /\ ctrl.mode = "settled"
  /\ stack # <<>>
  /\ Head(stack).frame = "AndThen"
  /\ LET r1 == ctrl.result
         f == Head(stack).f
     IN  CASE r1.kind = "Right" ->
                /\ ctrl' = Continue(r1.bulkRequests, Apply(f, r1.value))
                /\ invoked' = Logged(invoked, [f |-> f, arg |-> r1.value])
           [] r1.kind = "Left" ->
                /\ ctrl' = Continue(<<>>, Apply(f, r1.value))
                /\ invoked' = Logged(invoked, [f |-> f, arg |-> r1.value])
           [] OTHER ->
                /\ ctrl' = ctrl
                /\ invoked' = invoked
  /\ stack' = Tail(stack)
  /\ UNCHANGED <<desc, clientCalls, clientReplies, thunkRuns, visited, outcome, self, parked, backend>>

\* case "FlatMap" of InterpreterImpl._interpret (unnamed/part_013):
\* r1 = await this._interpret(bulkRequests, state, kioa.self)
RunFlatMap ==
  /\ Running("FlatMap")
  /\ stack' = <<[frame |-> "FlatMap", f |-> ctrl.kioa.f]>> \o stack
  /\ ctrl' = Run(ctrl.bulkRequests, ctrl.kioa.self)
  /\ Enter
  /\ UNCHANGED <<desc, clientCalls, clientReplies, thunkRuns, invoked, outcome, self, parked, backend>>

\* r1 is there: a Left is returned as it is; on Right
\* r2 = await this._interpret(bulkRequests1, s1, kioa.f(a1, s1))
FlatMapBind ==
  /\ ctrl.mode = "settled"
  /\ stack # <<>>
  /\ Head(stack).frame = "FlatMap"
  /\ LET r1 == ctrl.result
         f == Head(stack).f
     IN  IF r1.kind = "Right"
         THEN /\ ctrl' = Continue(r1.bulkRequests, Apply(f, r1.value))
              /\ invoked' = Logged(invoked, [f |-> f, arg |-> r1.value])
              /\ stack' = <<[frame |-> "FlatMapJoin",
                             bulkRequests1 |-> r1.bulkRequests]>> \o Tail(stack)
         ELSE /\ ctrl' = ctrl
              /\ invoked' = invoked
              /\ stack' = Tail(stack)
  /\ UNCHANGED <<desc, clientCalls, clientReplies, thunkRuns, visited, outcome, self, parked, backend>>

\* r2 is there: a Left is returned as it is; on Right
\* new Right([[...bulkRequests1, ...bulkRequests2], s2, a2])
FlatMapJoin ==
  /\ ctrl.mode = "settled"
  /\ stack # <<>>
  /\ Head(stack).frame = "FlatMapJoin"
  /\ LET r2 == ctrl.result
     IN  ctrl' = IF r2.kind = "Right"
                 THEN Settled(Right(Head(stack).bulkRequests1 \o r2.bulkRequests,
                                    r2.value))
                 ELSE ctrl
  /\ stack' = Tail(stack)
  /\ UNCHANGED <<desc, clientCalls, clientReplies, thunkRuns, invoked, visited,
                 outcome, self, parked, backend>>

\* promiseEither.flatMap applied to the settled r1: on Right the callback
\* runs kioa.f(a1) with bulkRequests1; the inner flatMap over r2 re-wraps
\* r2's Right unchanged and is not a frame of its own
FlatMapResume ==
  /\ ctrl.mode = "settled"
  /\ stack # <<>>
  /\ Head(stack).frame = "AndThen"
  /\ LET r1 == ctrl.result
         f == Head(stack).f
     IN  IF r1.kind = "Right"
         THEN /\ ctrl' = Continue(r1.bulkRequests, Apply(f, r1.value))
              /\ invoked' = Logged(invoked, [f |-> f, arg |-> r1.value])
         ELSE /\ ctrl' = ctrl
              /\ invoked' = invoked
  /\ stack' = Tail(stack)
  /\ UNCHANGED <<desc, clientCalls, clientReplies, thunkRuns, visited, outcome, self, parked, backend>>

\* case "Fold": r = this.run(bulkRequests, kioa.self); F.fold(r, ...)
RunFold ==
  /\ Running("Fold")
  /\ stack' = <<[frame |-> "Fold", bulkRequests |-> ctrl.bulkRequests,
                 success |-> ctrl.kioa.success,
                 failure |-> ctrl.kioa.failure]>> \o stack
  /\ ctrl' = Run(ctrl.bulkRequests, ctrl.kioa.self)
  /\ Enter
  /\ UNCHANGED <<desc, clientCalls, clientReplies, thunkRuns, invoked, outcome, self, parked, backend>>

\* a fold whose two callbacks are taken in the other order
FoldResumeSwapped ==
  /\ ctrl.mode = "settled"
  /\ stack # <<>>
  /\ Head(stack).frame = "Fold"
  /\ LET r == ctrl.result
         fr == Head(stack)
     IN  CASE r.kind = "Left" ->
                /\ ctrl' = Continue(fr.bulkRequests, Apply(fr.success, r.value))
                /\ invoked' = Logged(invoked, [f |-> fr.success, arg |-> r.value])
           [] r.kind = "Right" ->
                /\ ctrl' = Continue(r.bulkRequests, Apply(fr.failure, r.value))
                /\ invoked' = Logged(invoked, [f |-> fr.failure, arg |-> r.value])
           [] OTHER ->
                /\ ctrl' = ctrl
                /\ invoked' = invoked
  /\ stack' = Tail(stack)
  /\ UNCHANGED <<desc, clientCalls, clientReplies, thunkRuns, visited, outcome, self, parked, backend>>


\* a fold whose failure continuation starts from an empty buffer
FoldResumeDropsBuffer ==
  /\ ctrl.mode = "settled"
  /\ stack # <<>>
  /\ Head(stack).frame = "Fold"
  /\ LET r == ctrl.result
         fr == Head(stack)
     IN  CASE r.kind = "Left" ->
                /\ ctrl' = Continue(<<>>, Apply(fr.failure, r.value))
                /\ invoked' = Logged(invoked, [f |-> fr.failure, arg |-> r.value])
           [] r.kind = "Right" ->
                /\ ctrl' = Continue(r.bulkRequests, Apply(fr.success, r.value))
                /\ invoked' = Logged(invoked, [f |-> fr.success, arg |-> r.value])
           [] OTHER ->
                /\ ctrl' = ctrl
                /\ invoked' = invoked
  /\ stack' = Tail(stack)
  /\ UNCHANGED <<desc, clientCalls, clientReplies, thunkRuns, visited, outcome, self, parked, backend>>
\* promiseEither.fold applied to the settled r
FoldResume ==
  /\ ctrl.mode = "settled"
  /\ stack # <<>>
  /\ Head(stack).frame = "Fold"
  /\ LET r == ctrl.result
         fr == Head(stack)
     IN  CASE r.kind = "Left" ->
                /\ ctrl' = Continue(fr.bulkRequests, Apply(fr.failure, r.value))
                /\ invoked' = Logged(invoked, [f |-> fr.failure, arg |-> r.value])
           [] r.kind = "Right" ->
                /\ ctrl' = Continue(r.bulkRequests, Apply(fr.success, r.value))
                /\ invoked' = Logged(invoked, [f |-> fr.success, arg |-> r.value])
           [] OTHER ->
                /\ ctrl' = ctrl
                /\ invoked' = invoked
  /\ stack' = Tail(stack)
  /\ UNCHANGED <<desc, clientCalls, clientReplies, thunkRuns, visited, outcome, self, parked, backend>>

\* case "GetRecord": F.async(() => this.client.getRecord({app, id}))
RunGetRecord ==
  /\ Running("GetRecord")
  /\ clientCalls' = Append(clientCalls,
       [op |-> "getRecord", app |-> ctrl.kioa.app, id |-> ctrl.kioa.id])
  /\ ctrl' = Await("getRecord", ctrl.bulkRequests, ctrl.kioa)
  /\ Enter
  /\ UNCHANGED <<desc, stack, clientReplies, thunkRuns, invoked, outcome, self, parked, backend>>

\* a GetRecord that succeeds with an empty buffer
GetRecordReplyDropsBuffer ==
  /\ Awaiting("getRecord")
  /\ \/ \E e \in RemoteErrors :
          /\ clientReplies' = Append(clientReplies, ReplyLeft(e))
          /\ ctrl' = Settled(Left(e))
     \/ /\ clientReplies' = Append(clientReplies, ReplyThrow(ClientCrash))
        /\ ctrl' = Settled(Rejected(ClientCrash))
     \/ \E record \in ServerRecords :
          /\ clientReplies' = Append(clientReplies, ReplyRight([record |-> record]))
          /\ ctrl' = Settled(Right(<<>>,
                        KRecord(record, ctrl.kioa.app, record["$id"].value,
                                record["$revision"].value)))
  /\ UNCHANGED <<desc, stack, clientCalls, thunkRuns, invoked, visited, outcome, self, parked, backend>>

\* the client answers getRecord: Left(KError), Right({record}) or it throws
GetRecordReply ==
  /\ Awaiting("getRecord")
  /\ \/ \E e \in RemoteErrors :
          /\ clientReplies' = Append(clientReplies, ReplyLeft(e))
          /\ ctrl' = Settled(Left(e))
     \/ /\ clientReplies' = Append(clientReplies, ReplyThrow(ClientCrash))
        /\ ctrl' = Settled(Rejected(ClientCrash))
     \/ \E record \in ServerRecords :
          /\ clientReplies' = Append(clientReplies, ReplyRight([record |-> record]))
          /\ ctrl' = Settled(Right(ctrl.bulkRequests,
                        KRecord(record, ctrl.kioa.app, record["$id"].value,
                                record["$revision"].value)))
  /\ UNCHANGED <<desc, stack, clientCalls, thunkRuns, invoked, visited, outcome, self, parked, backend>>

\* a GetRecords that passes the caller's field list on as it is
AugmentFieldsNot(orgFields) == orgFields

\* orgFields ? [...orgFields, "$id", "$revision"] : undefined
AugmentFields(orgFields) ==
  IF orgFields = Undefined THEN Undefined
  ELSE [t |-> "fields", names |-> orgFields.names \o <<"$id", "$revision">>]

\* case "GetRecords"
RunGetRecords ==
  /\ Running("GetRecords")
  /\ clientCalls' = Append(clientCalls,
       [op |-> "getRecords", app |-> ctrl.kioa.app,
        fields |-> AugmentFields(ctrl.kioa.fields), query |-> ctrl.kioa.query])
  /\ ctrl' = Await("getRecords", ctrl.bulkRequests, ctrl.kioa)
  /\ Enter
  /\ UNCHANGED <<desc, stack, clientReplies, thunkRuns, invoked, outcome, self, parked, backend>>

\* the lists of rows the backend may answer getRecords with
ServerRecordLists ==
  {<<>>, <<ServerRecordB>>, <<ServerRecordA, ServerRecordB>>}

\* the client answers getRecords
GetRecordsReply ==
  /\ Awaiting("getRecords")
  /\ \/ \E e \in RemoteErrors :
          /\ clientReplies' = Append(clientReplies, ReplyLeft(e))
          /\ ctrl' = Settled(Left(e))
     \/ /\ clientReplies' = Append(clientReplies, ReplyThrow(ClientCrash))
        /\ ctrl' = Settled(Rejected(ClientCrash))
     \/ \E records \in ServerRecordLists :
          /\ clientReplies' = Append(clientReplies, ReplyRight([records |-> records]))
          /\ ctrl' = Settled(Right(ctrl.bulkRequests,
                        Arr([i \in 1..Len(records) |->
                               KRecord(records[i], ctrl.kioa.app,
                                       records[i]["$id"].value,
                                       records[i]["$revision"].value)])))
  /\ UNCHANGED <<desc, stack, clientCalls, thunkRuns, invoked, visited, outcome, self, parked, backend>>

\* what the six write cases have in common: F.succeed([[...bulkRequests, request], a])
WriteStep(request, a) ==
  /\ ctrl' = Settled(Right(Enqueue(ctrl.bulkRequests, request), a))
  /\ Enter
  /\ UNCHANGED <<desc, stack, clientCalls, clientReplies, thunkRuns, invoked,
                 outcome, self, parked, backend>>

\* plural write cases that fail with the error instead of throwing it
ThrowNoRecordsAsFailure(op) ==
  /\ ctrl' = Settled(Left(NoRecordsError(op)))
  /\ Enter
  /\ UNCHANGED <<desc, stack, clientCalls, clientReplies, thunkRuns, invoked,
                 outcome, self, parked, backend>>

\* the plural write cases throw on an empty list: the promise rejects
ThrowNoRecords(op) ==
  /\ ctrl' = Settled(Rejected(NoRecordsError(op)))
  /\ Enter
  /\ UNCHANGED <<desc, stack, clientCalls, clientReplies, thunkRuns, invoked,
                 outcome, self, parked, backend>>

\* case "AddRecord"
RunAddRecord ==
  /\ Running("AddRecord")
  /\ WriteStep(AddRecordRequest(ctrl.kioa.record), Undefined)

\* case "AddRecords"
RunAddRecords ==
  /\ Running("AddRecords")
  /\ IF ctrl.kioa.records = <<>> THEN ThrowNoRecords("add")
     ELSE WriteStep(AddRecordsRequest(ctrl.kioa.records), Undefined)

\* case "UpdateRecord"
RunUpdateRecord ==
  /\ Running("UpdateRecord")
  /\ WriteStep(UpdateRecordRequest(ctrl.kioa.record),
               UpdatedRecord(ctrl.kioa.record))

\* case "UpdateRecords"
RunUpdateRecords ==
  /\ Running("UpdateRecords")
  /\ IF ctrl.kioa.records = <<>> THEN ThrowNoRecords("update")
     ELSE WriteStep(UpdateRecordsRequest(ctrl.kioa.records),
                    Arr([i \in 1..Len(ctrl.kioa.records) |->
                           UpdatedRecord(ctrl.kioa.records[i])]))

\* case "DeleteRecord"
RunDeleteRecord ==
  /\ Running("DeleteRecord")
  /\ WriteStep(DeleteRecordRequest(ctrl.kioa.record), Undefined)

\* case "DeleteRecords"
RunDeleteRecords ==
  /\ Running("DeleteRecords")
  /\ IF ctrl.kioa.records = <<>> THEN ThrowNoRecords("delete")
     ELSE WriteStep(DeleteRecordsRequest(ctrl.kioa.records), Undefined)

\* case "Commit": nothing to send, or this.client.bulkRequest({requests})
RunCommit ==
  /\ Running("Commit")
  /\ IF Len(ctrl.bulkRequests) = 0
     THEN /\ ctrl' = Settled(Right(<<>>, Undefined))
          /\ clientCalls' = clientCalls
     ELSE /\ ctrl' = Await("bulkRequest", ctrl.bulkRequests, ctrl.kioa)
          /\ clientCalls' = Append(clientCalls,
               [op |-> "bulkRequest", requests |-> ctrl.bulkRequests])
  /\ Enter
  /\ UNCHANGED <<desc, stack, clientReplies, thunkRuns, invoked, outcome, self, parked, backend>>

\* a Commit that keeps the submitted entries in the buffer
CommitResultKeepsBuffer(response, bulkRequests) ==
  CASE response.kind = "Left" -> Left(response.value)
    [] response.kind = "Right" -> Right(bulkRequests, Undefined)
    [] response.kind = "throw" -> Rejected(response.value)

\* a Commit that takes a remote error for a success
CommitResultSwallowsError(response, bulkRequests) ==
  CASE response.kind = "Left" -> Right(<<>>, Undefined)
    [] response.kind = "Right" -> Right(<<>>, Undefined)
    [] response.kind = "throw" -> Rejected(response.value)

\* a client that turns whatever it catches into a Left
CommitResultCatchesAll(response, bulkRequests) ==
  CASE response.kind = "Left" -> Left(response.value)
    [] response.kind = "Right" -> Right(<<>>, Undefined)
    [] response.kind = "throw" -> Left(response.value)

\* what Commit makes of the client's response to bulkRequest({requests: bulkRequests})
CommitResult(response, bulkRequests) ==
  CASE response.kind = "Left" -> Left(response.value)
    [] response.kind = "Right" -> Right(<<>>, Undefined)
    [] response.kind = "throw" -> Rejected(response.value)

\* the answers the client may give to bulkRequest
BulkRequestResponses ==
  {ReplyLeft(e) : e \in RemoteErrors}
  \cup {ReplyRight(Undefined), ReplyThrow(ClientCrash)}

\* the client answers bulkRequest
BulkRequestReply ==
  /\ Awaiting("bulkRequest")
  /\ \E response \in BulkRequestResponses :
       /\ clientReplies' = Append(clientReplies, response)
       /\ ctrl' = Settled(CommitResult(response, ctrl.bulkRequests))
  /\ UNCHANGED <<desc, stack, clientCalls, thunkRuns, invoked, visited, outcome, self, parked, backend>>

\* a runner that hands a failure back as the run's value
RunnerFinishReturnsError ==
  /\ ctrl.mode = "settled"
  /\ stack = <<>>
  /\ outcome' =
       CASE ctrl.result.kind = "Right" ->
              [kind |-> "returned", value |-> ctrl.result.value]
         [] ctrl.result.kind = "Left" ->
              [kind |-> "returned", value |-> ctrl.result.value]
         [] ctrl.result.kind = "Rejected" ->
              [kind |-> "thrown", value |-> ctrl.result.reason]
  /\ ctrl' = Done(ctrl.result)
  /\ UNCHANGED <<desc, stack, clientCalls, clientReplies, thunkRuns, invoked,
                 visited, self, parked, backend>>

\* a runner that flushes what is left in the buffer when the run succeeds
RunnerFinishAutoFlush ==
  /\ ctrl.mode = "settled"
  /\ stack = <<>>
  /\ outcome' =
       IF ctrl.result.kind = "Right"
       THEN [kind |-> "returned", value |-> ctrl.result.value]
       ELSE [kind |-> "thrown",
             value |-> IF ctrl.result.kind = "Left" THEN ctrl.result.value
                       ELSE ctrl.result.reason]
  /\ clientCalls' =
       IF ctrl.result.kind = "Right" /\ ctrl.result.bulkRequests # <<>>
       THEN Append(clientCalls,
              [op |-> "bulkRequest", requests |-> ctrl.result.bulkRequests])
       ELSE clientCalls
  /\ ctrl' = Done(ctrl.result)
  /\ UNCHANGED <<desc, stack, clientReplies, thunkRuns, invoked, visited, self, parked, backend>>

\* PromiseRunner.run: await the interpreter; Left throws the error, Right
\* returns the value; a rejected promise makes the await throw
RunnerFinish ==
  /\ ctrl.mode = "settled"
  /\ stack = <<>>
  /\ outcome' =
       CASE ctrl.result.kind = "Right" ->
              [kind |-> "returned", value |-> ctrl.result.value]
         [] ctrl.result.kind = "Left" ->
              [kind |-> "thrown", value |-> ctrl.result.value]
         [] ctrl.result.kind = "Rejected" ->
              [kind |-> "thrown", value |-> ctrl.result.reason]
  /\ ctrl' = Done(ctrl.result)
  /\ UNCHANGED <<desc, stack, clientCalls, clientReplies, thunkRuns, invoked,
                 visited, self, parked, backend>>

Next ==
  \/ RunSucceed \/ RunFail \/ RunAsync \/ AsyncSettle
  \/ RunAndThen \/ FlatMapResume \/ RunFold \/ FoldResume
  \/ RunFlatMap \/ FlatMapBind \/ FlatMapJoin
  \/ RunGetRecord \/ GetRecordReply \/ RunGetRecords \/ GetRecordsReply
  \/ RunAddRecord \/ RunAddRecords \/ RunUpdateRecord \/ RunUpdateRecords
  \/ RunDeleteRecord \/ RunDeleteRecords
  \/ RunCommit \/ BulkRequestReply
  \/ RunnerFinish

Spec == Init /\ [][Next]_vars

\* The effects of the example of Promise.all: chains of one write node (each
\* call of PromiseRunner.run has its own), Commit and Fail
ParallelChains(write) ==
  {<<Effect(write), ThenStep(Commit)>>,
   <<Effect(write), ThenStep(write), ThenStep(Commit)>>,
   <<Effect(write), ThenStep(Commit), ThenStep(write), ThenStep(Commit)>>,
   <<Effect(write), ThenStep(Fail(Str("error"))), ThenStep(Commit)>>,
   <<Effect(write), ThenStep(Commit), ThenStep(write),
     ThenStep(Fail(Str("error")))>>}

ParallelProgram(run, d) ==
  \E steps \in ParallelChains(IF run = 1 THEN AddRecord(NewRecord1)
                               ELSE UpdateRecord(Record2)) : d = Plain(steps)

\* the variables of the call of PromiseRunner.run that is running
Registers ==
  [desc |-> desc, ctrl |-> ctrl, stack |-> stack, clientCalls |-> clientCalls,
   clientReplies |-> clientReplies, thunkRuns |-> thunkRuns,
   invoked |-> invoked, visited |-> visited, outcome |-> outcome,
   self |-> self]

\* runner.run(kio) of Promise.all([runner.run(...), runner.run(...)]) that
\* has not begun
NewRun(run, d) ==
  [desc |-> d, ctrl |-> Start(d), stack |-> <<>>, clientCalls |-> <<>>,
   clientReplies |-> <<>>, thunkRuns |-> 0, invoked |-> <<>>,
   visited |-> <<>>, outcome |-> [kind |-> "none"], self |-> run]

\* one call of PromiseRunner.run, or two calls on the same runner of which
\* the first runs up to its first await before the second begins
InitParallel ==
  \/ Program(desc) /\ Started /\ Alone
  \/ /\ ParallelProgram(1, desc)
     /\ Started
     /\ self = 1
     /\ backend = NoBackend
     /\ \E d \in {Plain(steps) : steps \in ParallelChains(UpdateRecord(Record2))} :
          parked = <<NewRun(2, d)>>

\* the buffer passed on from the call that was running to the one resumed
ResumedWithBufferOf(c, running) ==
  LET buffer == CASE running.mode \in {"run", "await"} -> running.bulkRequests
                  [] running.mode = "settled" /\ running.result.kind = "Right" ->
                       running.result.bulkRequests
                  [] OTHER -> <<>>
  IN  CASE c.mode \in {"run", "await"} -> [c EXCEPT !.bulkRequests = buffer]
        [] c.mode = "settled" /\ c.result.kind = "Right" ->
             [c EXCEPT !.result.bulkRequests = buffer]
        [] OTHER -> c

\* an interpreter that keeps one buffer for all the calls of run
SwitchSharedBuffer ==
  /\ parked # <<>>
  /\ ctrl.mode \in {"await", "settled", "done"}
  /\ parked[1].ctrl.mode # "done"
  /\ desc' = parked[1].desc
  /\ ctrl' = ResumedWithBufferOf(parked[1].ctrl, ctrl)
  /\ stack' = parked[1].stack
  /\ clientCalls' = parked[1].clientCalls
  /\ clientReplies' = parked[1].clientReplies
  /\ thunkRuns' = parked[1].thunkRuns
  /\ invoked' = parked[1].invoked
  /\ visited' = parked[1].visited
  /\ outcome' = parked[1].outcome
  /\ self' = parked[1].self
  /\ parked' = <<Registers>>
  /\ UNCHANGED backend

\* The running call of PromiseRunner.run awaits a promise (or has returned)
\* and the event loop goes on with the other call: its first statement, or
\* the callback of the promise it awaits.  bulkRequests, kioa and the
\* callbacks are parameters and locals of Interpreter.run, which every call
\* has for itself.
Switch ==
  /\ parked # <<>>
  /\ ctrl.mode \in {"await", "settled", "done"}
  /\ parked[1].ctrl.mode # "done"
  /\ desc' = parked[1].desc
  /\ ctrl' = parked[1].ctrl
  /\ stack' = parked[1].stack
  /\ clientCalls' = parked[1].clientCalls
  /\ clientReplies' = parked[1].clientReplies
  /\ thunkRuns' = parked[1].thunkRuns
  /\ invoked' = parked[1].invoked
  /\ visited' = parked[1].visited
  /\ outcome' = parked[1].outcome
  /\ self' = parked[1].self
  /\ parked' = <<Registers>>
  /\ UNCHANGED backend

NextParallel == Next \/ Switch

\* Promise.all([runner.run(kio1), runner.run(kio2)])
ParallelSpec == InitParallel /\ [][NextParallel]_vars

\* The backend assumed behind the client: it stores the record 5 of app 1,
\* applies a bulk request as a whole or not at all, and rejects it when an
\* update entry carries a revision other than the one the record has
StoredApp == Num(1)
StoredId == Num(5)
Conflict == KError("e1", "GAIA_CO02", "conflict")
NotFound == KError("e2", "GAIA_RE01", "not found")

\* the stored record is the one app and id name
IsStored(app, id) == ToNumber(app) = StoredApp /\ ToNumber(id) = StoredId

\* the revision an entry carries asks for no check, or is the stored one
RevisionMatches(store, revision) ==
  \/ revision \in {Undefined, Num(-1)}
  \/ ToNumber(revision) = Num(store.revision)

\* the store after the entries have been applied in order, or the error of
\* the first entry that is rejected; entries that add or delete records do
\* not touch the stored record
RECURSIVE ApplyEntries(_, _)
ApplyEntries(store, entries) ==
  IF entries = <<>> THEN [ok |-> TRUE, store |-> store]
  ELSE LET entry == Head(entries)
       IN  IF entry.method # "PUT" \/ entry.api # "/k/v1/record.json"
           THEN ApplyEntries(store, Tail(entries))
           ELSE IF ~IsStored(entry.payload.app, entry.payload.id)
           THEN [ok |-> FALSE, error |-> NotFound]
           ELSE IF ~RevisionMatches(store, entry.payload.revision)
           THEN [ok |-> FALSE, error |-> Conflict]
           ELSE ApplyEntries(
                  [store EXCEPT
                     !.revision = @ + 1,
                     !.value = [c \in DOMAIN store.value \cup
                                       DOMAIN entry.payload.record |->
                                  IF c \in DOMAIN entry.payload.record
                                  THEN entry.payload.record[c]
                                  ELSE store.value[c]]],
                  Tail(entries))

\* the backend answers getRecord with the record it stores
GetRecordServed ==
  /\ Awaiting("getRecord")
  /\ backend # NoBackend
  /\ IF IsStored(ctrl.kioa.app, ctrl.kioa.id)
     THEN LET record == ServerRecord(backend.value, StoredId,
                                     Digits(DigitsOf(backend.revision)))
          IN  /\ clientReplies' =
                   Append(clientReplies, ReplyRight([record |-> record]))
              /\ ctrl' = Settled(Right(ctrl.bulkRequests,
                            KRecord(record, ctrl.kioa.app, record["$id"].value,
                                    record["$revision"].value)))
     ELSE /\ clientReplies' = Append(clientReplies, ReplyLeft(NotFound))
          /\ ctrl' = Settled(Left(NotFound))
  /\ backend' = [backend EXCEPT !.served = @ + 1]
  /\ UNCHANGED <<desc, stack, clientCalls, thunkRuns, invoked, visited, outcome,
                 self, parked>>

\* the backend applies the bulk request, or rejects it and stays as it is
BulkRequestServed ==
  /\ Awaiting("bulkRequest")
  /\ backend # NoBackend
  /\ LET applied == ApplyEntries(backend, clientCalls[Len(clientCalls)].requests)
         response == IF applied.ok THEN ReplyRight(Undefined)
                     ELSE ReplyLeft(applied.error)
     IN  /\ clientReplies' = Append(clientReplies, response)
         /\ ctrl' = Settled(CommitResult(response, ctrl.bulkRequests))
         /\ backend' = [IF applied.ok THEN applied.store ELSE backend
                          EXCEPT !.served = backend.served + 1]
  /\ UNCHANGED <<desc, stack, clientCalls, thunkRuns, invoked, visited, outcome,
                 self, parked>>

\* getRecord({app: 1, id: 5}).andThen((a) => updateRecord({record:
\* a.update(f)})).andThen(() => commit()), each call with its own f
RacingFunction(run) ==
  SetField("text", Field("", Str(IF run = 1 THEN "b" ELSE "c")))
RacingUpdate(run) ==
  Handled(<<Effect(GetRecord(StoredApp, StoredId))>>,
          ThenUpdate(RacingFunction(run), TRUE), 1, 1)

\* the revisions the stored record begins with
StoredRevisions == {1, 7}

\* as InitParallel, or two calls that read, update and commit the stored
\* record
InitBackend ==
  \/ InitParallel
  \/ /\ desc = RacingUpdate(1)
     /\ Started
     /\ self = 1
     /\ parked = <<NewRun(2, RacingUpdate(2))>>
     /\ \E n \in StoredRevisions :
          backend = [revision |-> n, value |-> FieldsA, served |-> 0]

NextBackend == NextParallel \/ GetRecordServed \/ BulkRequestServed

\* Promise.all of two calls of runner.run against the assumed backend
BackendSpec == InitBackend /\ [][NextBackend]_vars

\* Every pending step of the run is eventually taken: the event loop runs
\* every callback of a settled promise and the client answers every call
FairSpec == InitAnyTimes /\ [][Next]_vars /\ WF_vars(Next)

----------------------------------------------------------------------------
(* What the claims observe *)

WriteKinds ==
  {"AddRecord", "AddRecords", "UpdateRecord", "UpdateRecords", "DeleteRecord",
   "DeleteRecords"}

BulkCalls == SelectSeq(clientCalls, LAMBDA c : c.op = "bulkRequest")
Finished == ctrl.mode = "done"
Last(xs) == xs[Len(xs)]
Entered(kind) == Cardinality({i \in 1..Len(visited) : visited[i].kind = kind})
Thrown(v) == [kind |-> "thrown", value |-> v]
Returned(a) == [kind |-> "returned", value |-> a]

\* a write node; a plural one carries at least one record
IsWrite(s) ==
  /\ s.op # "map"
  /\ s.kio.kind \in WriteKinds
  /\ s.kio.kind \in {"AddRecords", "UpdateRecords", "DeleteRecords"} =>
       s.kio.records # <<>>
IsNode(s, kio) == s.op # "map" /\ s.kio = kio
IsPlain(d) == d.h = NoHandler

\* the buffer entry a write node stands for
RequestOf(kio) ==
  CASE kio.kind = "AddRecord" -> AddRecordRequest(kio.record)
    [] kio.kind = "AddRecords" -> AddRecordsRequest(kio.records)
    [] kio.kind = "UpdateRecord" -> UpdateRecordRequest(kio.record)
    [] kio.kind = "UpdateRecords" -> UpdateRecordsRequest(kio.records)
    [] kio.kind = "DeleteRecord" -> DeleteRecordRequest(kio.record)
    [] kio.kind = "DeleteRecords" -> DeleteRecordsRequest(kio.records)

\* the entries of the write nodes steps[from..to], in order
RequestsOf(steps, from, to) ==
  [i \in 1..(to - from + 1) |-> RequestOf(steps[from + i - 1].kio)]

----------------------------------------------------------------------------
(* C1 *)

OnlyWrites(d) ==
  IsPlain(d) /\ \A i \in 1..Len(d.steps) : IsWrite(d.steps[i])

\* C1: a chain of write nodes without a Commit makes no bulkRequest call (no
\* client call at all), and when the run has ended it returned normally with
\* every entry still in the buffer, unsent: nothing flushes at the end.
C1_Buffering ==
  OnlyWrites(desc) =>
    /\ clientCalls = <<>>
    /\ Finished =>
         /\ outcome.kind = "returned"
         /\ ctrl.result.kind = "Right"
         /\ ctrl.result.bulkRequests = RequestsOf(desc.steps, 1, Len(desc.steps))

C1_Witness ==
  /\ OnlyWrites(desc)
  /\ Finished
  /\ outcome.kind = "returned"
  /\ Len(ctrl.result.bulkRequests) >= 2
  /\ BulkCalls = <<>>

----------------------------------------------------------------------------
(* C2 *)

WritesThenCommit(d) ==
  /\ IsPlain(d)
  /\ Len(d.steps) >= 2
  /\ IsNode(d.steps[Len(d.steps)], Commit)
  /\ \A i \in 1..(Len(d.steps) - 1) : IsWrite(d.steps[i])

\* C2: N write nodes followed by one Commit: until the Commit is evaluated
\* the client sees nothing, and from then on it has seen exactly one
\* bulkRequest, whose requests are the N entries of the N write nodes in the
\* order of the nodes.
C2_AtomicFlush ==
  WritesThenCommit(desc) =>
    IF visited # <<>> /\ Last(visited).kind = "Commit"
    THEN clientCalls =
           <<[op |-> "bulkRequest",
              requests |-> RequestsOf(desc.steps, 1, Len(desc.steps) - 1)]>>
    ELSE clientCalls = <<>>

C2_Witness ==
  /\ WritesThenCommit(desc)
  /\ Len(desc.steps) >= 4
  /\ desc.steps[1].kio.kind # desc.steps[2].kio.kind
  /\ Finished
  /\ outcome.kind = "returned"
  /\ Len(BulkCalls) = 1
  /\ Len(BulkCalls[1].requests) = Len(desc.steps) - 1

----------------------------------------------------------------------------
(* C3 *)

FailingStep(s) ==
  /\ s.op # "map"
  /\ \/ s.kio.kind = "Fail"
     \/ s.kio.kind = "Async" /\ ~s.kio.f.resolves
FailureOf(kio) == IF kio.kind = "Fail" THEN kio.error ELSE kio.f.with

\* steps 1..k-1 are writes and step k is a Fail or an Async that rejects
WritesThenFailure(d, k) ==
  /\ IsPlain(d)
  /\ 2 <= k /\ k <= Len(d.steps)
  /\ \A i \in 1..(k - 1) : IsWrite(d.steps[i])
  /\ FailingStep(d.steps[k])

\* C3: writes followed by a Fail (or by an Async that rejects), not under a
\* fold or catch: the client is never called, no Commit and no other node
\* after the failing step is evaluated, no continuation after the failing
\* step is invoked, and the run ends throwing the failure's value.
C3_RollbackOnFailure ==
  \A k \in 1..Len(desc.steps) :
    WritesThenFailure(desc, k) =>
      /\ clientCalls = <<>>
      /\ Entered("Commit") = 0
      /\ Len(invoked) <= k - 1
      /\ Finished => outcome = Thrown(FailureOf(desc.steps[k].kio))

C3_Witness ==
  /\ WritesThenFailure(desc, 3)
  /\ desc.steps[3].kio.kind = "Async"
  /\ Len(desc.steps) >= 4
  /\ IsNode(desc.steps[4], Commit)
  /\ Finished
  /\ outcome = Thrown(ThunkRej.with)
  /\ thunkRuns = 1

----------------------------------------------------------------------------
(* C4 *)

\* write1; commit; write2; fail; commit
WriteCommitWriteFailCommit(d) ==
  /\ IsPlain(d)
  /\ Len(d.steps) = 5
  /\ IsWrite(d.steps[1])
  /\ IsNode(d.steps[2], Commit)
  /\ IsWrite(d.steps[3])
  /\ FailingStep(d.steps[4])
  /\ IsNode(d.steps[5], Commit)

\* C4: in write1; commit; write2; fail; commit the only client call ever made
\* is the bulkRequest of the first Commit, carrying write1 alone; when that
\* Commit succeeded, the run ends throwing the failure, with that one call
\* made and write2 never sent.
C4_CommittedWritesStay ==
  WriteCommitWriteFailCommit(desc) =>
    /\ Len(clientCalls) <= 1
    /\ \A i \in 1..Len(clientCalls) :
         clientCalls[i] = [op |-> "bulkRequest",
                           requests |-> <<RequestOf(desc.steps[1].kio)>>]
    /\ (Finished /\ clientReplies = <<ReplyRight(Undefined)>>) =>
         /\ Len(clientCalls) = 1
         /\ outcome = Thrown(FailureOf(desc.steps[4].kio))

C4_Witness ==
  /\ WriteCommitWriteFailCommit(desc)
  /\ Finished
  /\ clientReplies = <<ReplyRight(Undefined)>>
  /\ Len(BulkCalls) = 1
  /\ outcome.kind = "thrown"
  /\ Entered("Commit") = 1

----------------------------------------------------------------------------
(* C5 *)

\* writes; commit; commit
WritesThenTwoCommits(d) ==
  /\ IsPlain(d)
  /\ Len(d.steps) >= 3
  /\ \A i \in 1..(Len(d.steps) - 2) : IsWrite(d.steps[i])
  /\ IsNode(d.steps[Len(d.steps) - 1], Commit)
  /\ IsNode(d.steps[Len(d.steps)], Commit)

\* C5: no bulkRequest is ever made with an empty requests array; a Commit
\* that succeeds does so with an empty buffer and the value undefined; the
\* effect that is a single Commit never calls the client and returns
\* undefined; and when writes; commit; commit has run to its end exactly one
\* bulkRequest was made.
C5_CommitEmptiesBuffer ==
  /\ \A i \in 1..Len(BulkCalls) : BulkCalls[i].requests # <<>>
  /\ (/\ ctrl.mode = "settled"
      /\ ctrl.result.kind = "Right"
      /\ Last(visited).kind = "Commit") =>
       ctrl.result = Right(<<>>, Undefined)
  /\ desc = Plain(<<Effect(Commit)>>) =>
       /\ clientCalls = <<>>
       /\ Finished => /\ outcome = Returned(Undefined)
                      /\ ctrl.result = Right(<<>>, Undefined)
  /\ (WritesThenTwoCommits(desc) /\ Finished /\ outcome.kind = "returned") =>
       /\ Len(BulkCalls) = 1
       /\ Entered("Commit") = 2

C5_Witness ==
  /\ WritesThenTwoCommits(desc)
  /\ Finished
  /\ outcome = Returned(Undefined)
  /\ Entered("Commit") = 2
  /\ Len(BulkCalls) = 1
  /\ visited[Len(visited)] = [kind |-> "Commit", pending |-> 0]

----------------------------------------------------------------------------
(* C6 *)

\* the evaluations of a Commit node that was given a non-empty buffer
FlushingCommits ==
  Cardinality({i \in 1..Len(visited) :
                 visited[i].kind = "Commit" /\ visited[i].pending > 0})

C6_OneCallPerCommit ==
  /\ Len(BulkCalls) = FlushingCommits
  /\ (/\ IsPlain(desc)
      /\ Finished
      /\ clientCalls # <<>>
      /\ Len(clientReplies) = Len(clientCalls)
      /\ Last(clientCalls).op = "bulkRequest"
      /\ Last(clientReplies).kind = "Left") =>
       outcome = Thrown(Last(clientReplies).value)

C6_CommitFailsWithRemoteError ==
  (/\ Awaiting("bulkRequest")
   /\ Len(clientReplies') = Len(clientReplies) + 1
   /\ Last(clientReplies').kind = "Left") =>
    /\ ctrl' = Settled(Left(Last(clientReplies').value))
    /\ clientCalls' = clientCalls
    /\ visited' = visited

\* C6: when bulkRequest answers a Commit with a remote error, the Commit
\* settles as the failure carrying exactly that error and no client call is
\* made in that step; the bulkRequest calls made are exactly one per
\* evaluation of a Commit node with a non-empty buffer; and in a program
\* without fold or catch the run ends throwing that error.
C6_RemoteFailureOfCommit ==
  /\ []C6_OneCallPerCommit
  /\ [][C6_CommitFailsWithRemoteError]_vars

C6_Witness ==
  /\ IsPlain(desc)
  /\ Finished
  /\ Len(BulkCalls) = 2
  /\ FlushingCommits = 2
  /\ clientReplies[1] = ReplyRight(Undefined)
  /\ clientReplies[2].kind = "Left"
  /\ outcome = Thrown(clientReplies[2].value)

----------------------------------------------------------------------------
(* C7 *)

\* a step that always succeeds
Infallible(s) ==
  \/ s.op = "map"
  \/ s.kio.kind = "Succeed"
  \/ s.kio.kind = "Async" /\ s.kio.f.resolves
  \/ s.kio.kind \in {"AddRecord", "UpdateRecord", "DeleteRecord"}

\* steps 1..k-1 succeed and step k is a Fail
FailsAt(d, k) ==
  /\ IsPlain(d)
  /\ k <= Len(d.steps)
  /\ \A i \in 1..(k - 1) : Infallible(d.steps[i])
  /\ d.steps[k].op # "map"
  /\ d.steps[k].kio.kind = "Fail"

C7_LaterStepsNeverRun ==
  \A k \in 1..Len(desc.steps) :
    FailsAt(desc, k) =>
      /\ Len(invoked) <= k - 1
      /\ Finished => /\ outcome = Thrown(desc.steps[k].kio.error)
                     /\ Len(invoked) = k - 1

C7_FlatMapPassesFailure ==
  (/\ ctrl.mode = "settled"
   /\ ctrl.result.kind = "Left"
   /\ stack # <<>>
   /\ Head(stack).frame = "AndThen") =>
    /\ invoked' = invoked
    /\ ctrl' = ctrl
    /\ stack' = Tail(stack)

\* C7: when the self of an AndThen (or of a map) has failed, the step that
\* resumes the AndThen invokes no continuation and leaves the same failure as
\* the AndThen's result; in a chain whose k-th step is a Fail after steps
\* that succeed, only the k-1 continuations before it are ever invoked and
\* the run ends throwing that Fail's error, however many andThen and map
\* steps follow.
C7_ShortCircuit ==
  /\ []C7_LaterStepsNeverRun
  /\ [][C7_FlatMapPassesFailure]_vars

C7_Witness ==
  /\ FailsAt(desc, 1)
  /\ Len(desc.steps) = 3
  /\ desc.steps[2].op = "map"
  /\ desc.steps[3].op = "andThen"
  /\ Finished
  /\ invoked = <<>>
  /\ Entered("AndThen") = 2
  /\ outcome = Thrown(desc.steps[1].kio.error)

----------------------------------------------------------------------------
(* C8 *)

FoldFrames == Cardinality({i \in 1..Len(stack) : stack[i].frame = "Fold"})
FoldContinuationCalls ==
  Cardinality({i \in 1..Len(invoked) :
                 invoked[i].f.fn \in {"fold.success", "fold.failure"}})
RejectedNow ==
  ctrl.mode \in {"settled", "done"} /\ ctrl.result.kind = "Rejected"

\* every Fold entered has either called one continuation or still waits
C8_OneCallPerFold ==
  ~RejectedNow => FoldContinuationCalls + FoldFrames = Entered("Fold")

C8_FoldDispatch ==
  (/\ ctrl.mode = "settled"
   /\ ctrl.result.kind \in {"Left", "Right"}
   /\ stack # <<>>
   /\ Head(stack).frame = "Fold") =>
    LET r == ctrl.result
        k == IF r.kind = "Right" THEN Head(stack).success
             ELSE Head(stack).failure
        buf == IF r.kind = "Right" THEN r.bulkRequests
               ELSE Head(stack).bulkRequests
    IN  /\ invoked' = Logged(invoked, [f |-> k, arg |-> r.value])
        /\ ctrl' = Run(buf, Apply(k, r.value))
        /\ stack' = Tail(stack)

\* C8: when the self of a Fold has settled as a success or as a failure, the
\* step that resumes the Fold invokes exactly one continuation, once: success
\* with self's value after a success, failure with self's error after a
\* failure; what runs next in the Fold's place is the effect that
\* continuation returned, so its result is the Fold's result; and every Fold
\* entered has called exactly one continuation unless it still waits for
\* its self.
C8_FoldInvokesOneContinuation ==
  /\ []C8_OneCallPerFold
  /\ [][C8_FoldDispatch]_vars

C8_Witness ==
  /\ desc.h.h = "fold"
  /\ Finished
  /\ Entered("Fold") = 1
  /\ Len(invoked) >= 1
  /\ Last(invoked).f.fn = "fold.failure"
  /\ Last(invoked).arg = Str("error")
  /\ FoldContinuationCalls = 1
  /\ outcome = Thrown(Str("refailed"))

----------------------------------------------------------------------------
(* C9 *)

RejectingAsync == Async(ThunkRej)
CatchRecover == [h |-> "catch", f |-> Const(Succeed(Str("recovered")))]

\* the node evaluated last was an Async whose thunk rejected
AsyncRejectedNow ==
  /\ ctrl.mode = "settled"
  /\ Last(visited).kind = "Async"
  /\ ctrl.result.kind # "Right"

\* C9: an Async whose thunk rejects with v settles as the failure Left(v),
\* as a Fail(v) would; a catch around it invokes its handler with v and the
\* run returns what the handler recovers with; with no fold or catch the run
\* ends throwing v.
C9_AsyncRejectionIsFailure ==
  /\ AsyncRejectedNow => ctrl.result = Left(ThunkRej.with)
  /\ (desc = Handled(<<Effect(RejectingAsync)>>, CatchRecover, 1, 1)
        /\ Finished) =>
       /\ \E i \in 1..Len(invoked) :
            /\ invoked[i].f.fn = "fold.failure"
            /\ invoked[i].arg = ThunkRej.with
       /\ outcome = Returned(Str("recovered"))
  /\ (desc = Plain(<<Effect(RejectingAsync)>>) /\ Finished) =>
       outcome = Thrown(ThunkRej.with)

----------------------------------------------------------------------------
(* C10 *)

RetriedRejectingAsync(k) ==
  Handled(<<Effect(RejectingAsync)>>, [h |-> "retryN", times |-> k], 1, 1)

\* C10: for every k, async(failingThunk).retryN(k) never runs the thunk more
\* than k+1 times, and when the run has ended the thunk was run exactly k+1
\* times and the run threw the thunk's error.
C10_RetryExhaustion ==
  \A k \in 0..MaxRetry :
    desc = RetriedRejectingAsync(k) =>
      /\ thunkRuns <= k + 1
      /\ Finished => /\ thunkRuns = k + 1
                     /\ outcome = Thrown(ThunkRej.with)

----------------------------------------------------------------------------
(* C11 *)

\* the whole of d is an effect wrapped in handler h, with no rejecting thunk
WrappedWhole(d, h) ==
  /\ d.h = h
  /\ d.from = 1
  /\ d.to = Len(d.steps)
  /\ \A i \in 1..Len(d.steps) : d.steps[i].kio # RejectingAsync

\* in such a program every Fold node is one attempt of the retried effect
Attempts == Entered("Fold")
FailedAttempts ==
  Cardinality({i \in 1..Len(invoked) : invoked[i].f.fn = "fold.failure"})

\* at most k+1 attempts; the run returns at the first attempt that succeeds;
\* after k+1 failed attempts it throws the last attempt's failure
RetriesUpTo(k) ==
  /\ Attempts <= k + 1
  /\ (Finished /\ outcome.kind = "returned") =>
       /\ FailedAttempts = Attempts - 1
       /\ outcome.value = ctrl.result.value
  /\ (Finished /\ ctrl.result.kind = "Left") =>
       /\ Attempts = k + 1
       /\ FailedAttempts = k + 1
       /\ outcome = Thrown(Last(invoked).arg)

\* the law for retryN of kio.ts alone
RetryNRetriesUpTo ==
  \A k \in 0..MaxRetry :
    WrappedWhole(desc, [h |-> "retryN", times |-> k]) => RetriesUpTo(k)

RetryNRetried ==
  /\ WrappedWhole(desc, [h |-> "retryN", times |-> 2])
  /\ Finished
  /\ Attempts = 2
  /\ outcome = Returned(Undefined)

\* C11: for every k, e.retryN(k) and e.retry({kind: "Recurs", times: k})
\* evaluate e at most k+1 times, stop at the first attempt that succeeds
\* with that attempt's value, and after k+1 failed attempts end with the
\* failure of the last attempt.
C11_RetryAttempts ==
  \A k \in 0..MaxRetry :
    (\/ WrappedWhole(desc, [h |-> "retryN", times |-> k])
     \/ WrappedWhole(desc, [h |-> "retry", policy |-> Recurs(k)])) =>
      RetriesUpTo(k)

----------------------------------------------------------------------------
(* C12 *)

\* C12: the interpreter is started on an empty buffer; a run whose
\* evaluation ended in the success Right([_, a]) returned exactly a, a run
\* whose evaluation ended in the failure Left(e) threw exactly e, whatever
\* the depth of the andThen chain it arose in, and a run that returned a
\* value did not end in a failure.
C12_RunnerReturnsOrThrows ==
  /\ visited # <<>> => visited[1].pending = 0
  /\ Finished =>
       /\ ctrl.result.kind = "Right" => outcome = Returned(ctrl.result.value)
       /\ ctrl.result.kind = "Left" => outcome = Thrown(ctrl.result.value)
       /\ outcome.kind = "returned" => ctrl.result.kind = "Right"
  /\ ~Finished => outcome = [kind |-> "none"]

C12_Witness ==
  /\ FailsAt(desc, 3)
  /\ Len(desc.steps) = 3
  /\ Finished
  /\ ctrl.result = Left(Str("error"))
  /\ Entered("AndThen") = 2
  /\ outcome = Thrown(Str("error"))

----------------------------------------------------------------------------
(* C13 *)

\* the integer given by digits d, as a number value, without any rounding
ExactInteger(d) ==
  LET c == StripZeros(d)
  IN  IF Len(c) <= MaxSmallDigits THEN Num(DigitsValue(c)) ELSE BigNum(c)

\* n + 1 in the integers, for the integer n a revision denotes
ExactSuccessor(revision) ==
  CASE revision.t = "digits" -> ExactInteger(DigitsSucc(StripZeros(revision.d)))
    [] "big" \in DOMAIN revision -> ExactInteger(DigitsSucc(revision.big))
    [] revision.n < 0 -> Num(revision.n + 1)
    [] OTHER -> ExactInteger(DigitsSucc(DigitsOf(revision.n)))

\* the program is updateRecord({record: r.update(f)}) and has just been evaluated
UpdateEvaluated(r, f) ==
  /\ IsPlain(desc)
  /\ desc.steps[1].kio = UpdateRecord(RecordUpdate(r, f))
  /\ ctrl.mode = "settled"
  /\ Last(visited).kind = "UpdateRecord"

UpdateResultIsSuccessor(r, f) ==
  ctrl.result =
    Right(ctrl.result.bulkRequests,
          KRecord(FieldsApply(f, r.value), r.app, r.id, ExactSuccessor(r.revision)))

\* the integer a revision denotes is below 2^53
SafeRevision(revision) ==
  CASE revision.t = "digits" -> DigitsLess(StripZeros(revision.d), TwoTo53)
    [] "big" \in DOMAIN revision -> DigitsLess(revision.big, TwoTo53)
    [] OTHER -> TRUE

\* the law for the revisions below 2^53
RevisionIncrementWhenSafe ==
  \A revision \in Revisions \ {Undefined} : \A f \in FieldFunctions :
    LET r == KRecord(FieldsA, Num(1), Num(5), revision)
    IN  (UpdateEvaluated(r, f) /\ SafeRevision(revision)) =>
          UpdateResultIsSuccessor(r, f)

RevisionIncremented ==
  /\ UpdateEvaluated(KRecord(FieldsA, Num(1), Num(5), Digits(<<0, 7>>)),
                     SetField("modifier", Field("MODIFIER", Str("m"))))
  /\ ctrl.result.value.revision = Num(8)
  /\ "modifier" \in DOMAIN ctrl.result.value.value

\* C13: for every record r whose revision is an integer n or a digit-only
\* string denoting n, and every f, updateRecord({record: r.update(f)})
\* succeeds with a record that has r's app and id, the field map f(r.value)
\* in full, and revision exactly n+1.
C13_RevisionIncrement ==
  \A revision \in Revisions \ {Undefined} : \A f \in FieldFunctions :
    LET r == KRecord(FieldsA, Num(1), Num(5), revision)
    IN  UpdateEvaluated(r, f) => UpdateResultIsSuccessor(r, f)

----------------------------------------------------------------------------
(* C14 *)

\* getRecord; updateRecord of the record read, transformed by f; commit
ReadUpdateCommit(f) ==
  /\ desc.h = ThenUpdate(f, TRUE)
  /\ clientReplies # <<>>
  /\ clientReplies[1].kind = "Right"

\* the bulkRequest carries one update entry for the row read
OneUpdateEntryFor(call, row, f) ==
  /\ call.op = "bulkRequest"
  /\ Len(call.requests) = 1
  /\ LET entry == call.requests[1]
         produced == FieldsApply(f, row)
     IN  /\ entry.method = "PUT"
         /\ entry.api = "/k/v1/record.json"
         /\ entry.payload.app = desc.steps[1].kio.app
         /\ entry.payload.id = row["$id"].value
         /\ entry.payload.revision = row["$revision"].value
         /\ \A c \in DOMAIN entry.payload.record :
              c \in DOMAIN produced /\ entry.payload.record[c] = produced[c]
         /\ \A c \in DOMAIN produced :
              produced[c].type \notin ProhibitedTypes =>
                c \in DOMAIN entry.payload.record

\* C14: in getRecord; updateRecord(record.update(f)); commit, once the record
\* was read, at most one bulkRequest is made; it holds exactly one update
\* entry with the app of the read, the id and the revision of the row as
\* read, and the fields f produced; and a run that succeeds made exactly
\* that one bulkRequest and returns undefined.
C14_ReadUpdateCommit ==
  \A f \in FieldFunctions :
    ReadUpdateCommit(f) =>
      LET row == clientReplies[1].value.record
      IN  /\ Len(BulkCalls) <= 1
          /\ \A i \in 1..Len(BulkCalls) : OneUpdateEntryFor(BulkCalls[i], row, f)
          /\ (Finished /\ ctrl.result.kind = "Right") =>
               /\ Len(clientCalls) = 2
               /\ Len(BulkCalls) = 1
               /\ outcome = Returned(Undefined)

C14_Witness ==
  /\ ReadUpdateCommit(SetField("text", Field("", Str("b"))))
  /\ clientReplies[1].value.record = ServerRecordB
  /\ Finished
  /\ Len(BulkCalls) = 1
  /\ BulkCalls[1].requests[1].payload.revision = Digits(<<2>>)
  /\ BulkCalls[1].requests[1].payload.record.text.value = Str("b")
  /\ outcome = Returned(Undefined)

----------------------------------------------------------------------------
(* C15 *)

\* the getRecords call C15 expects for a GetRecords node
ExpectedGetRecords(kio) ==
  [op |-> "getRecords", app |-> kio.app, query |-> kio.query,
   fields |-> IF kio.fields = Undefined THEN Undefined
              ELSE FieldNames(kio.fields.names \o <<"$id", "$revision">>)]

\* the Records C15 expects for the rows of an answer
ExpectedRecords(app, rows) ==
  Arr([i \in 1..Len(rows) |->
         KRecord(rows[i], app, rows[i]["$id"].value, rows[i]["$revision"].value)])

GetRecordsCalls == SelectSeq(clientCalls, LAMBDA c : c.op = "getRecords")

\* C15: in a chain of effects, every getRecords call on the client is made
\* for a GetRecords node of the chain with the node's app and query and with
\* the node's field list followed by "$id" and "$revision", or with no field
\* list when the node has none; one call is made per GetRecords evaluated;
\* and a GetRecords that succeeds yields one Record per returned row, in the
\* returned order, with the node's app and the row's $id and $revision.
C15_GetRecordsAugmentsFields ==
  IsPlain(desc) =>
    /\ Len(GetRecordsCalls) = Entered("GetRecords")
    /\ \A i \in 1..Len(GetRecordsCalls) :
         \E k \in 1..Len(desc.steps) :
           /\ desc.steps[k].op # "map"
           /\ desc.steps[k].kio.kind = "GetRecords"
           /\ GetRecordsCalls[i] = ExpectedGetRecords(desc.steps[k].kio)
    /\ (/\ ctrl.mode = "settled"
        /\ ctrl.result.kind = "Right"
        /\ Last(visited).kind = "GetRecords") =>
         ctrl.result.value =
           ExpectedRecords(Last(clientCalls).app,
                           Last(clientReplies).value.records)

C15_Witness ==
  /\ desc = Plain(<<Effect(GetRecords(Num(1), FieldNames(<<"text">>),
                                      Str("$id = 5")))>>)
  /\ Finished
  /\ clientCalls[1].fields = FieldNames(<<"text", "$id", "$revision">>)
  /\ clientReplies[1] = ReplyRight([records |-> <<ServerRecordA, ServerRecordB>>])
  /\ outcome.kind = "returned"
  /\ Len(outcome.value.items) = 2
  /\ outcome.value.items[2].id = Digits(<<7>>)

----------------------------------------------------------------------------
(* C16 *)

\* the leaves evaluated so far; in a plain chain the k-th is the k-th step
LeavesEntered ==
  Cardinality({i \in 1..Len(visited) : visited[i].kind \notin {"AndThen", "Fold"}})

\* sent holds exactly the fields of value that are not of a read-only type
OnlyReadOnlyFieldsOmitted(sent, value) ==
  /\ DOMAIN sent =
       {c \in DOMAIN value :
          value[c].type \notin {"RECORD_NUMBER", "MODIFIER", "CREATOR",
                                "UPDATED_TIME", "CREATED_TIME"}}
  /\ \A c \in DOMAIN sent : sent[c] = value[c]

\* an UpdateRecord / UpdateRecords node of a plain chain has just enqueued
UpdateEnqueued(kind) ==
  /\ IsPlain(desc)
  /\ ctrl.mode = "settled"
  /\ ctrl.result.kind = "Right"
  /\ Last(visited).kind = kind

\* C16: the entry UpdateRecord enqueues, and every row of the entry
\* UpdateRecords enqueues, holds exactly the fields of the record whose
\* declared type is none of RECORD_NUMBER, MODIFIER, CREATOR, UPDATED_TIME,
\* CREATED_TIME, fields without a declared type included, each with its
\* value unchanged.
C16_ReadOnlyFieldsStripped ==
  /\ UpdateEnqueued("UpdateRecord") =>
       OnlyReadOnlyFieldsOmitted(
         Last(ctrl.result.bulkRequests).payload.record,
         desc.steps[LeavesEntered].kio.record.value)
  /\ UpdateEnqueued("UpdateRecords") =>
       LET rows == Last(ctrl.result.bulkRequests).payload.records
           records == desc.steps[LeavesEntered].kio.records
       IN  /\ Len(rows) = Len(records)
           /\ \A i \in 1..Len(rows) :
                OnlyReadOnlyFieldsOmitted(rows[i].record, records[i].value)

C16_Witness ==
  /\ UpdateEnqueued("UpdateRecord")
  /\ desc.steps[1].kio.record.value =
       FieldsApply(SetField("text", Field("", Str("b"))), FieldsAll)
  /\ DOMAIN Last(ctrl.result.bulkRequests).payload.record = {"text", "note"}
  /\ Last(ctrl.result.bulkRequests).payload.record.text = Field("", Str("b"))

----------------------------------------------------------------------------
(* C17 *)

\* step k of d is a plural write given an empty array, after writes only
EmptyWriteAt(d, k) ==
  /\ k <= Len(d.steps)
  /\ d.steps[k].op # "map"
  /\ d.steps[k].kio \in EmptyWrites
  /\ \A i \in 1..(k - 1) : IsWrite(d.steps[i])

FatalErrors == {"Error", "ValidationError"}

\* C17: when the k-th step of a chain is addRecords, updateRecords or
\* deleteRecords given an empty array, under a fold, catch or retry or not:
\* the evaluation never settles as a normal failure, no buffer ever holds
\* more than the k-1 entries of the writes before it, the client is never
\* called, no failure continuation is ever invoked, and a run that ends
\* ends throwing the fatal error; an effect that could not even be built
\* threw the error before anything was evaluated.
C17_EmptyPluralWriteIsFatal ==
  \A k \in 1..Len(desc.steps) :
    EmptyWriteAt(desc, k) =>
      /\ ctrl.mode \in {"settled", "done"} =>
           /\ ctrl.result.kind # "Left"
           /\ ctrl.result.kind = "Right" =>
                Len(ctrl.result.bulkRequests) <= k - 1
      /\ \A i \in 1..Len(visited) : visited[i].pending <= k - 1
      /\ clientCalls = <<>>
      /\ FailedAttempts = 0
      /\ Finished =>
           /\ ctrl.result.kind = "Rejected"
           /\ outcome = Thrown(ctrl.result.reason)
           /\ outcome.value.t \in FatalErrors
      /\ ctrl.mode = "unbuilt" =>
           /\ ctrl.error.t \in FatalErrors
           /\ visited = <<>>

C17_Witness ==
  /\ desc = Handled(<<Effect(AddRecord(NewRecord1)), ThenStep(UpdateRecords(<<>>))>>,
                    CatchRecover, 1, 2)
  /\ Finished
  /\ Entered("Fold") = 1
  /\ Entered("UpdateRecords") = 1
  /\ Len(invoked) = 1
  /\ outcome = Thrown(NoRecordsError("update"))

----------------------------------------------------------------------------
(* C18 *)

\* no ValidationError was thrown, at construction or since
NotRejectedAsInvalid ==
  /\ ctrl.mode # "unbuilt"
  /\ (ctrl.mode \in {"settled", "done"} /\ ctrl.result.kind = "Rejected") =>
       ctrl.result.reason.t # "ValidationError"

\* the constructor call threw a ValidationError before its node existed:
\* the root effect was never built, or the continuation making the call
\* threw and the run, if it has ended, threw the ValidationError
RejectedAsInvalid(lazy) ==
  /\ \A i \in 1..Len(visited) : visited[i].kind \in {"AndThen", "Succeed"}
  /\ clientCalls = <<>>
  /\ IF lazy
     THEN /\ ctrl.mode # "unbuilt"
          /\ Finished => outcome = Thrown(ctrl.result.reason)
          /\ Finished => outcome.value.t = "ValidationError"
     ELSE /\ ctrl.mode = "unbuilt"
          /\ ctrl.error.t = "ValidationError"

\* the identifiers C18 names: non-negative integers and digit-only strings
\* (a Record may also have no revision)
IsIdentifier(slot, x) ==
  \/ x.t = "number" /\ (("n" \in DOMAIN x /\ x.n >= 0) \/ "big" \in DOMAIN x)
  \/ x.t = "digits" /\ x.d # <<>>
  \/ x = Undefined /\ slot \in {"updateRecords.revision", "deleteRecords.revision"}

\* the identifiers the schemas of models.ts accept: any integer, or digits
IsIdentifierOrNegative(slot, x) ==
  IsIdentifier(slot, x) \/ ("n" \in DOMAIN x /\ x.n < 0)

IdentifiersValidatedButSign ==
  \A slot \in IdSlots : \A x \in IdValues : \A lazy \in BOOLEAN :
    desc = IdProgram(slot, x, lazy) =>
      IF IsIdentifierOrNegative(slot, x) THEN NotRejectedAsInvalid
      ELSE RejectedAsInvalid(lazy)

IdentifierRejected ==
  /\ desc = IdProgram("deleteRecord.id", Str("abc"), TRUE)
  /\ Finished
  /\ visited = <<[kind |-> "AndThen", pending |-> 0],
                 [kind |-> "Succeed", pending |-> 0]>>
  /\ outcome = Thrown(ValidationError("KRecordConstructor"))

\* C18: a constructor call given an app id, record id or revision builds its
\* node only if the value is a non-negative integer or a digit-only string;
\* given any other value it throws a ValidationError before a node exists
\* and before anything of it is interpreted.
C18_IdentifiersValidated ==
  \A slot \in IdSlots : \A x \in IdValues : \A lazy \in BOOLEAN :
    desc = IdProgram(slot, x, lazy) =>
      IF IsIdentifier(slot, x) THEN NotRejectedAsInvalid
      ELSE RejectedAsInvalid(lazy)

----------------------------------------------------------------------------
(* C19 *)

\* the root effect is KIO.gen of a generator function, or the same
\* statements written as a chain of andThen
WrittenWith(form) == desc.h.h = form
Statements == desc.h.g

\* the k-th statement of the andThen chain, given the value a of the one
\* before it: e_k(a) with a continuation, or KIO.succeed(r) after the last
IsStatement(kioa, g, k, a) ==
  LET e == andThenChain(g, k, a)
  IN  /\ kioa.kind = e.kind
      /\ IF e.kind = "AndThen" THEN kioa.self = e.self ELSE kioa = e

GenStartsWithFirstStatement ==
  (visited = <<>> /\ ctrl.mode = "run") =>
    /\ ctrl.bulkRequests = <<>>
    /\ IsStatement(ctrl.kioa, Statements, 1, Undefined)

GenEndsLikeChain ==
  Finished =>
    /\ ctrl.result.kind = "Right" =>
         /\ Len(invoked) = Len(Statements.yields)
         /\ outcome =
              Returned(GenReturn(Statements.ret,
                                 IF invoked = <<>> THEN Undefined
                                 ELSE Last(invoked).arg))
    /\ ctrl.result.kind = "Left" =>
         /\ Len(invoked) < Len(Statements.yields)
         /\ outcome = Thrown(ctrl.result.value)

GenNextStatement ==
  (ctrl.mode = "settled" /\ stack # <<>>) =>
    IF ctrl.result.kind = "Right"
    THEN /\ ctrl'.mode = "run"
         /\ ctrl'.bulkRequests = ctrl.result.bulkRequests
         /\ IsStatement(ctrl'.kioa, Statements, Len(invoked) + 2,
                        ctrl.result.value)
         /\ Len(invoked') = Len(invoked) + 1
    ELSE /\ invoked' = invoked
         /\ visited' = visited
         /\ clientCalls' = clientCalls
         /\ ctrl' = ctrl

\* C19: an effect built by KIO.gen, evaluated once, goes through the same
\* steps as e1.andThen(a1 => e2(a1).andThen(... => KIO.succeed(r))): it
\* starts on the first yielded effect with an empty buffer; after a yielded
\* effect succeeded with a and a buffer, the next thing evaluated is the next
\* yielded effect computed from a, on that buffer, or KIO.succeed(r) once the
\* generator returned r; after a yielded effect failed nothing more of the
\* generator runs, no node is entered, no client call is made and the run
\* throws that failure. The chain written with andThen obeys the same rules.
C19_GenIsAndThenChain ==
  /\ [](WrittenWith("gen") \/ WrittenWith("andThen") =>
          GenStartsWithFirstStatement /\ GenEndsLikeChain)
  /\ [][WrittenWith("gen") \/ WrittenWith("andThen") => GenNextStatement]_vars

\* KIO.gen of a generator that reads a record, updates what it read, commits
\* and returns: three statements ran, each fed the value of the one before
C19_Witness ==
  /\ WrittenWith("gen")
  /\ Len(Statements.yields) = 3
  /\ Statements.yields[2] = [u |-> "updateRecord", f |-> SetField("text", Field("", Str("b")))]
  /\ Finished
  /\ ctrl.result.kind = "Right"
  /\ Len(clientCalls) = 2
  /\ Len(invoked) = 3

----------------------------------------------------------------------------
(* C20 *)

\* the record the program starts from, and the one its update must produce
Original == desc.steps[1].kio.value
UpdatedBy(record, value) ==
  [t |-> "KRecord", value |-> value, app |-> record.app, id |-> record.id,
   revision |-> record.revision]
ExpectedUpdate ==
  UpdatedBy(Original,
            IF desc.h.form = "once" THEN FieldsApply(desc.h.f, Original.value)
            ELSE FieldsApply(desc.h.g, FieldsApply(desc.h.f, Original.value)))

UpdateRecordEntered == ctrl.mode = "run" /\ ctrl.kioa.kind = "UpdateRecord"

\* C20: record.update(f) is a KRecord with the app, id and revision of record
\* and the value f(record.value), while the record handed to the
\* continuation is still the original; record.update(f).update(g) and
\* record.update(a => g(f(a))) are both the KRecord with the app, id and
\* revision of record and the value g(f(record.value)).
C20_UpdatePreservesIdentity ==
  desc.h.h = "thenUpdates" =>
    /\ invoked # <<>> => invoked[1].arg = Original
    /\ UpdateRecordEntered => ctrl.kioa.record = ExpectedUpdate

\* update(f).update(g) evaluated where g overwrites what f wrote
C20_Witness ==
  /\ desc.h = ThenUpdates("twice", SetField("text", Field("", Str("b"))),
                          SetField("text", Field("", Str("c"))))
  /\ Original.revision = Digits(<<0, 7>>)
  /\ UpdateRecordEntered
  /\ ctrl.kioa.record.value["text"] = Field("", Str("c"))

----------------------------------------------------------------------------
(* C22 *)

IsFail(s) == s.op # "map" /\ s.kio.kind = "Fail"
CatchCommit == [h |-> "catch", f |-> Const(Commit)]

\* writes, then a catch, fold, retryN or retry around writes and Fails
WritesThenFold(d) ==
  /\ d.h \in Handlers
  /\ \A i \in 1..(d.from - 1) : IsWrite(d.steps[i])
  /\ \A i \in d.from..d.to : IsWrite(d.steps[i]) \/ IsFail(d.steps[i])

FoldSettled(kind) ==
  /\ ctrl.mode = "settled"
  /\ ctrl.result.kind = kind
  /\ stack # <<>>
  /\ Head(stack).frame = "Fold"

C22_ContinuationBuffer ==
  WritesThenFold(desc) =>
    /\ (FoldSettled("Left") /\ ctrl'.mode = "run") =>
         ctrl'.bulkRequests = RequestsOf(desc.steps, 1, desc.from - 1)
    /\ (FoldSettled("Right") /\ ctrl'.mode = "run") =>
         ctrl'.bulkRequests = RequestsOf(desc.steps, 1, desc.to)

C22_DroppedWritesNeverSent ==
  (/\ WritesThenFold(desc)
   /\ desc.h = CatchCommit
   /\ desc.to = Len(desc.steps)
   /\ \E i \in desc.from..desc.to : IsFail(desc.steps[i])) =>
    \A i \in 1..Len(BulkCalls) :
      BulkCalls[i].requests = RequestsOf(desc.steps, 1, desc.from - 1)

\* C22: in writes followed by a catch, fold, retryN or retry around writes
\* and Fails, the failure continuation of every Fold starts from exactly the
\* entries of the writes before the Fold, and the success continuation from
\* those entries followed by the entries of self; when the handler is a
\* Commit, every bulkRequest holds exactly the entries of the writes before
\* the Fold, so the writes self enqueued before failing are never sent.
C22_FoldFailureKeepsOuterBuffer ==
  /\ []C22_DroppedWritesNeverSent
  /\ [][C22_ContinuationBuffer]_vars

C22_Witness ==
  /\ desc = Handled(<<Effect(AddRecord(NewRecord1)), ThenStep(AddRecord(NewRecord1)),
                      ThenStep(Fail(Str("error")))>>, CatchCommit, 2, 3)
  /\ Finished
  /\ Len(BulkCalls) = 1
  /\ Len(BulkCalls[1].requests) = 1
  /\ Entered("AddRecord") = 2
  /\ outcome = Returned(Undefined)

----------------------------------------------------------------------------
(* C23 *)

\* a chain of write nodes only, built with flatMap
OnlyFlatMappedWrites(d) ==
  d.h = FlatMapped /\ \A i \in 1..Len(d.steps) : IsWrite(d.steps[i])

\* a chain a1 => w1.andThen(a2 => w2.andThen(...)) of write nodes only: every
\* AndThen but the first is evaluated from a buffer that is not empty
OnlyNestedWrites(d) ==
  /\ d.h.h = "andThen"
  /\ \A i \in 1..Len(d.h.g.yields) :
       d.h.g.yields[i] = Const(AddRecord(NewRecord1))

\* the successful run ended with the entries of its writes, each once
EndsWithEachEntryOnce(entries) ==
  (Finished /\ ctrl.result.kind = "Right") => ctrl.result.bulkRequests = entries

\* what was evaluated before an AndThen settled is what its continuation
\* starts from
AndThenHandsBufferOn ==
  (/\ ctrl.mode = "settled"
   /\ ctrl.result.kind = "Right"
   /\ stack # <<>>
   /\ Head(stack).frame = "AndThen"
   /\ ctrl'.mode = "run") =>
    ctrl'.bulkRequests = ctrl.result.bulkRequests

\* the AndThen case of Interpreter.run threads one buffer
AndThenThreadsBuffer ==
  /\ [](OnlyWrites(desc) =>
          EndsWithEachEntryOnce(RequestsOf(desc.steps, 1, Len(desc.steps))))
  /\ [](OnlyNestedWrites(desc) =>
          EndsWithEachEntryOnce(
            [i \in 1..Len(desc.h.g.yields) |-> AddRecordRequest(NewRecord1)]))
  /\ [][AndThenHandsBufferOn]_vars

AndThenThreaded ==
  /\ OnlyNestedWrites(desc)
  /\ Len(desc.h.g.yields) = 3
  /\ Finished
  /\ Len(ctrl.result.bulkRequests) = 3

\* C23: a chain of write nodes without a Commit that ran to its end leaves
\* in the buffer the entries of its write nodes in order, each exactly once,
\* whether the chain is built with andThen or with flatMap.
C23_SequentialBuffer ==
  (OnlyWrites(desc) \/ OnlyFlatMappedWrites(desc)) =>
    EndsWithEachEntryOnce(RequestsOf(desc.steps, 1, Len(desc.steps)))

----------------------------------------------------------------------------
(* C24 *)

\* the number of entries in the bulkRequest calls among the first n client
\* calls that the backend accepted
RECURSIVE AcceptedEntries(_)
AcceptedEntries(n) ==
  IF n = 0 THEN 0
  ELSE AcceptedEntries(n - 1)
       + IF clientCalls[n].op = "bulkRequest" /\ clientReplies[n].kind = "Right"
         THEN Len(clientCalls[n].requests)
         ELSE 0

\* the number of evaluations of a write node so far
WriteEvaluations ==
  Cardinality({i \in 1..Len(visited) : visited[i].kind \in WriteKinds})

EntriesAcceptedOnce == AcceptedEntries(Len(clientReplies)) <= WriteEvaluations

\* without fold, catch or retryN no entry is accepted twice
EntriesAcceptedOnceWithoutFold == IsPlain(desc) => EntriesAcceptedOnce

WriteCommitFailCatchCommit ==
  Handled(<<Effect(AddRecord(NewRecord1)), ThenStep(Commit),
            ThenStep(Fail(Str("error")))>>, CatchCommit, 2, 3)

\* one write, accepted twice
AcceptedTwice ==
  /\ desc = WriteCommitFailCatchCommit
  /\ WriteEvaluations = 1
  /\ AcceptedEntries(Len(clientReplies)) = 2

\* C24: in every run, the bulkRequest calls the backend accepted hold in
\* total no more entries than write nodes were evaluated: no entry is part
\* of two accepted bulkRequest calls, also when a fold, catch or retryN
\* encloses a Commit.
C24_NoEntrySubmittedTwice == EntriesAcceptedOnce

----------------------------------------------------------------------------
(* C25 *)

\* writes, then a write and a read retried together, then a Commit
RetriedWrite(d) ==
  /\ d.h.h \in {"retryN", "retry"}
  /\ d.to = d.from + 1
  /\ Len(d.steps) = d.to + 1
  /\ \A i \in 1..d.from : IsWrite(d.steps[i])
  /\ IsNode(d.steps[d.to], GetRecord(Num(1), Num(5)))
  /\ IsNode(d.steps[d.to + 1], Commit)

\* the reads that failed, one per failed attempt
FailedReads ==
  Cardinality({i \in 1..Len(clientReplies) :
                 clientCalls[i].op = "getRecord" /\ clientReplies[i].kind = "Left"})

\* C25: in writes, then a write and a read retried together by retryN or
\* retry, then a Commit, the attempt that succeeds hands on the entries of
\* the writes before the retry followed by the one entry of its own write,
\* however many attempts failed before it, and every bulkRequest holds
\* exactly those entries.
C25_RetryDoesNotAccumulateWrites ==
  RetriedWrite(desc) =>
    /\ FoldSettled("Right") =>
         ctrl.result.bulkRequests = RequestsOf(desc.steps, 1, desc.from)
    /\ \A i \in 1..Len(BulkCalls) :
         BulkCalls[i].requests = RequestsOf(desc.steps, 1, desc.from)

\* the second retry succeeded after two failed attempts and its writes were
\* accepted
C25_Witness ==
  /\ RetriedWrite(desc)
  /\ desc.from = 2
  /\ desc.h = [h |-> "retryN", times |-> 2]
  /\ FailedReads = 2
  /\ Entered("AddRecord") = 3
  /\ Finished
  /\ Len(BulkCalls) = 1
  /\ Len(BulkCalls[1].requests) = 2
  /\ outcome = Returned(Undefined)

----------------------------------------------------------------------------
(* C26 *)

\* the continuations of andThen invoked since the current attempt began
RECURSIVE InvokedInAttempt(_)
InvokedInAttempt(n) ==
  IF n = 0 \/ invoked[n].f.fn = "fold.failure" THEN 0
  ELSE InvokedInAttempt(n - 1) + IF invoked[n].f.fn = "andThen.f" THEN 1 ELSE 0

\* in every attempt, after the j-th statement succeeded the next thing
\* evaluated is statement j+1 of the generator, or KIO.succeed(r) after the
\* last one
AttemptRunsNextStatement ==
  (/\ ctrl.mode = "settled"
   /\ ctrl.result.kind = "Right"
   /\ stack # <<>>
   /\ Head(stack).frame = "AndThen") =>
    /\ ctrl'.mode = "run"
    /\ IsStatement(ctrl'.kioa, Statements, InvokedInAttempt(Len(invoked)) + 2,
                   ctrl.result.value)

\* the chain written with andThen is evaluated from its first statement in
\* every attempt
AndThenChainReEvaluates ==
  [][desc.h.h = "andThen.retryN" => AttemptRunsNextStatement]_vars

\* a generator skipped the statement whose failure was retried: the run
\* returned the value of the statement before it
GenSkippedFailedStatement ==
  /\ desc = Retried("gen.retryN", Generator(<<Const(Succeed(Num(1))),
                       Const(GetRecord(Num(1), Num(5)))>>, ReturnLast), 1)
  /\ Finished
  /\ Len(clientCalls) = 1
  /\ clientReplies[1].kind = "Left"
  /\ outcome = Returned(Num(1))

\* C26: an effect built by KIO.gen and retried with retryN, like the chain
\* of the same statements written with andThen, is evaluated from its first
\* statement in every attempt: after the j-th statement of an attempt
\* succeeded, statement j+1 is evaluated next, so the statement that failed
\* is evaluated again.
C26_GenIsReEvaluable ==
  [][desc.h.h \in {"gen.retryN", "andThen.retryN"} => AttemptRunsNextStatement]_vars

----------------------------------------------------------------------------
(* C27 *)

\* the effect is constructed and the interpreter has not entered a node yet
Constructed == visited = <<>> /\ ctrl.mode \in {"run", "unbuilt"}

BuiltByGen == desc.h.h \in {"gen", "gen.retryN"}

\* Every part of the generator body that has run: each call of next() runs
\* the body up to its next yield (or to its return)
GeneratorPartsRun == IF BuiltByGen THEN NextCalls(desc.h.g) ELSE 0

\* no thunk, no continuation and no client call runs during construction
NoCallbackRunsAtConstruction ==
  Constructed => thunkRuns = 0 /\ invoked = <<>> /\ clientCalls = <<>>

\* the effect was built by KIO.gen from a generator function with two
\* yields, and nothing of it was evaluated yet
GenConstructed ==
  /\ Constructed
  /\ desc.h.h = "gen"
  /\ Len(desc.h.g.yields) = 2

\* C27: when an effect has been constructed and nothing of it was evaluated
\* yet, no Async thunk was run, no continuation was invoked, no client call
\* was made and no part of a generator body was run.
C27_ConstructionRunsNoUserCode ==
  Constructed =>
    /\ thunkRuns = 0
    /\ invoked = <<>>
    /\ clientCalls = <<>>
    /\ GeneratorPartsRun = 0

----------------------------------------------------------------------------
(* C28 *)

\* retryN around a whole effect that fails in every attempt
RetriedFailure(d) ==
  /\ d.h.h = "retryN"
  /\ d.from = 1
  /\ d.to = Len(d.steps)
  /\ IsFail(d.steps[d.to])
  /\ \A i \in 1..(d.to - 1) : IsWrite(d.steps[i])

\* retryN(times) with times >= 0 ends
RetryNTerminatesFromZeroUp ==
  (RetriedFailure(desc) /\ desc.h.times >= 0) => <>Finished

\* C28: a run of e.retryN(times), where e fails in every attempt, ends,
\* whatever number times is.
C28_RetryNTerminates == RetriedFailure(desc) => <>Finished

----------------------------------------------------------------------------
(* C29 *)

\* a Revision as the Record of the specification has it
ValidRevision(x) ==
  \/ x.t = "number" /\ (("n" \in DOMAIN x /\ x.n >= 0) \/ "big" \in DOMAIN x)
  \/ x.t = "digits" /\ x.d # <<>>

\* the case of kinds has just succeeded
Produced(kinds) ==
  /\ ctrl.mode = "settled"
  /\ ctrl.result.kind = "Right"
  /\ visited # <<>>
  /\ visited[Len(visited)].kind \in kinds

\* the Records in the value the case succeeded with
ProducedRecords ==
  LET a == ctrl.result.value
  IN  IF a.t = "array" THEN {a.items[i] : i \in 1..Len(a.items)} ELSE {a}

RevisionsValid ==
  \A record \in ProducedRecords :
    record.revision = Undefined \/ ValidRevision(record.revision)

\* the revision the entry enqueued last carries
UpdateRecordGiven(revision) ==
  LET entry == ctrl.result.bulkRequests[Len(ctrl.result.bulkRequests)]
  IN  entry.payload.revision = revision

\* reads produce valid revisions, and so does UpdateRecord of a Record that
\* has a revision
RevisionsValidButOfUndefined ==
  /\ Produced({"GetRecord", "GetRecords"}) => RevisionsValid
  /\ (Produced({"UpdateRecord"}) /\ ~UpdateRecordGiven(Undefined)) =>
       RevisionsValid

\* UpdateRecord of a Record without revision succeeds with revision NaN
UpdatedWithoutRevision ==
  /\ Produced({"UpdateRecord"})
  /\ UpdateRecordGiven(Undefined)
  /\ ctrl.result.value.revision = NaN

\* C29: every Record a read or an update succeeds with has a revision that
\* is undefined or a valid Revision, also when the Record updated had none.
C29_ProducedRevisionsValid ==
  Produced({"GetRecord", "GetRecords", "UpdateRecord", "UpdateRecords"}) =>
    RevisionsValid

----------------------------------------------------------------------------
(* C30 *)

\* the kinds of the nodes that may change the buffer
BufferChangingKinds ==
  {"AddRecord", "AddRecords", "UpdateRecord", "UpdateRecords", "DeleteRecord",
   "DeleteRecords", "Commit"}

\* a case of the interpreter is being evaluated: entered, or awaiting its reply
Evaluating(kinds) ==
  ctrl.mode \in {"run", "await"} /\ ctrl.kioa.kind \in kinds

\* c holds a buffer: an evaluation in progress or a success, not a failure
HoldsBuffer(c) ==
  \/ c.mode \in {"run", "await"}
  \/ c.mode = "settled" /\ c.result.kind = "Right"

BufferOf(c) ==
  IF c.mode = "settled" THEN c.result.bulkRequests ELSE c.bulkRequests

\* the step leaves the buffer as the case was given it
BufferKept == HoldsBuffer(ctrl') => BufferOf(ctrl') = ctrl.bulkRequests

\* a read fails with the error the backend answered, and with nothing else
\* changed
ReadFailsWithRemoteError ==
  (ctrl'.mode = "settled" /\ ctrl'.result.kind = "Left") =>
    /\ clientReplies' = Append(clientReplies, ReplyLeft(ctrl'.result.value))
    /\ ctrl'.result.value \in RemoteErrors
    /\ stack' = stack

\* C30: Succeed, a resolved Async and a successful GetRecord or GetRecords
\* return the buffer they were given, entry by entry; a GetRecord or
\* GetRecords answered with a remote error fails with that error and the
\* buffers of the enclosing evaluations stay as they are; no case but the six
\* writes and Commit hands on a buffer other than the one it was given.
C30_ReadsKeepBuffer ==
  [][/\ (ctrl.mode \in {"run", "await"} /\
          ctrl.kioa.kind \notin BufferChangingKinds) => BufferKept
     /\ Evaluating({"GetRecord", "GetRecords"}) => ReadFailsWithRemoteError]_vars

\* a GetRecord given a buffer of one entry or more has succeeded
C30_Witness ==
  /\ Produced({"GetRecord"})
  /\ visited[Len(visited)].pending >= 1
  /\ Len(ctrl.result.bulkRequests) = visited[Len(visited)].pending

----------------------------------------------------------------------------
(* C21 *)

\* the step of the chain that is about to be evaluated
StepReached ==
  Cardinality({i \in 1..Len(visited) : visited[i].kind # "AndThen"}) + 1

\* the last Commit of the chain before step k, 0 if there is none
CommitBefore(k) ==
  LET commits == {0} \cup {j \in 1..(k - 1) : IsNode(desc.steps[j], Commit)}
  IN  CHOOSE j \in commits : \A i \in commits : i <= j

\* the entries of the write nodes of the running call's own tree that it has
\* evaluated since its last Commit
OwnWritesSinceCommit ==
  RequestsOf(desc.steps, CommitBefore(StepReached) + 1, StepReached - 1)

\* the running call makes a bulkRequest call in this step
MakesBulkRequest ==
  /\ self' = self
  /\ Len(clientCalls') = Len(clientCalls) + 1
  /\ Last(clientCalls').op = "bulkRequest"

\* C21: of two calls of run on the same runner that interleave at their
\* awaits, each has its own buffer: a bulkRequest a call makes carries
\* exactly the entries of the write nodes of its own tree since its own last
\* successful Commit; no step of one call, a failure and a Commit included,
\* changes what the other call holds; and a call goes on after an await with
\* the buffer it had before it.
C21_RunsHaveOwnBuffers ==
  [][parked # <<>> =>
       /\ MakesBulkRequest => Last(clientCalls').requests = OwnWritesSinceCommit
       /\ self' = self => parked' = parked
       /\ self' # self => (Registers' = parked[1] /\ parked' = <<Registers>>)]_vars

\* both calls have had a bulkRequest accepted and each awaits the answer to
\* its second
C21_Witness ==
  /\ parked # <<>>
  /\ self = 2
  /\ Awaiting("bulkRequest")
  /\ clientReplies = <<ReplyRight(Undefined)>>
  /\ Len(clientCalls) = 2
  /\ parked[1].ctrl.mode = "await"
  /\ Len(parked[1].clientCalls) = 2
  /\ parked[1].clientReplies = <<ReplyRight(Undefined)>>

----------------------------------------------------------------------------
(* C31 *)

\* the nodes entered so far that are not AndThen nodes: the steps of a chain
Leaves == SelectSeq(visited, LAMBDA n : n.kind # "AndThen")

\* the evaluations that called the client, and the call each one makes
Callers ==
  SelectSeq(visited, LAMBDA n : \/ n.kind \in {"GetRecord", "GetRecords"}
                                \/ n.kind = "Commit" /\ n.pending > 0)
CallOf(kind) ==
  CASE kind = "GetRecord" -> "getRecord"
    [] kind = "GetRecords" -> "getRecords"
    [] kind = "Commit" -> "bulkRequest"

\* client calls and thunks that were started and have not completed
InFlight ==
  (Len(clientCalls) - Len(clientReplies)) +
  (IF Awaiting("thunk") THEN 1 ELSE 0)

\* this step calls the client or an Async thunk
StartsCallOrThunk ==
  Len(clientCalls') > Len(clientCalls) \/ thunkRuns' > thunkRuns

\* every call and thunk of the steps before the one reached has completed
\* with success
EarlierCompleted ==
  /\ InFlight = 0
  /\ \A i \in 1..Len(clientReplies) : clientReplies[i].kind = "Right"
  /\ \A i \in 1..(StepReached - 1) :
       (desc.steps[i].op # "map" /\ desc.steps[i].kio.kind = "Async") =>
         desc.steps[i].kio.f.resolves

\* the steps are evaluated from left to right, and the client is called in
\* that order
OrderOfSteps ==
  IsPlain(desc) =>
    /\ Len(Leaves) <= Len(desc.steps)
    /\ \A i \in 1..Len(Leaves) :
         Leaves[i].kind = IF desc.steps[i].op = "map" THEN "Succeed"
                          ELSE desc.steps[i].kio.kind
    /\ Len(clientCalls) = Len(Callers)
    /\ \A i \in 1..Len(Callers) : clientCalls[i].op = CallOf(Callers[i].kind)
    /\ thunkRuns = Entered("Async")

StartsAfterEarlierCompleted ==
  (IsPlain(desc) /\ StartsCallOrThunk) => EarlierCompleted

\* C31: in a chain of andThen steps the call or thunk of a step is started
\* only when those of the steps before it have completed with success, at
\* most one call or thunk is in flight at any time, and the calls are made
\* in the order of the steps from left to right.
C31_CallsInChainOrder ==
  /\ [](InFlight <= 1)
  /\ []OrderOfSteps
  /\ [][StartsAfterEarlierCompleted]_vars

\* a thunk, then a getRecord, then a getRecords, one after the other
C31_Witness ==
  /\ IsPlain(desc)
  /\ Len(desc.steps) = 3
  /\ desc.steps[1].kio.kind = "Async"
  /\ Finished
  /\ outcome.kind = "returned"
  /\ thunkRuns = 1
  /\ Len(clientCalls) = 2
  /\ clientCalls[1].op = "getRecord"
  /\ clientCalls[2].op = "getRecords"

----------------------------------------------------------------------------
(* C32 *)

\* the revision a delete entry carries for record
DeleteRevision(record) ==
  IF record.revision = Undefined THEN Num(-1) ELSE record.revision

\* the step appends entry to the buffer and succeeds with undefined
AppendsAndReturnsUndefined(entry) ==
  ctrl' = Settled(Right(ctrl.bulkRequests \o <<entry>>, Undefined))

DeleteRecordAppendsEntry ==
  Running("DeleteRecord") =>
    AppendsAndReturnsUndefined(
      [method |-> "DELETE", api |-> "/k/v1/records.json",
       payload |-> [app |-> ctrl.kioa.record.app,
                    ids |-> <<ctrl.kioa.record.id>>,
                    revisions |-> <<DeleteRevision(ctrl.kioa.record)>>]])

DeleteRecordsAppendsEntry ==
  (Running("DeleteRecords") /\ ctrl.kioa.records # <<>>) =>
    \E entry \in {ctrl'.result.bulkRequests[Len(ctrl.bulkRequests) + 1]} :
      /\ AppendsAndReturnsUndefined(entry)
      /\ entry.method = "DELETE"
      /\ entry.api = "/k/v1/records.json"
      /\ Len(entry.payload.ids) = Len(ctrl.kioa.records)
      /\ Len(entry.payload.revisions) = Len(ctrl.kioa.records)
      /\ \A i \in 1..Len(ctrl.kioa.records) :
           /\ entry.payload.ids[i] = ctrl.kioa.records[i].id
           /\ entry.payload.revisions[i] = DeleteRevision(ctrl.kioa.records[i])

\* C32: DeleteRecord appends one DELETE entry on the plural records path
\* with the record's app, its id as the only id and its revision, or -1 when
\* it has none, as the only revision; DeleteRecords appends one entry whose
\* ids and revisions are as long as the list, the i-th being the i-th
\* record's id and its revision or -1; both succeed with undefined.
C32_DeleteEntries ==
  [][DeleteRecordAppendsEntry /\ DeleteRecordsAppendsEntry]_vars

\* DeleteRecords of a record with a revision and one without has succeeded
C32_Witness ==
  /\ Produced({"DeleteRecords"})
  /\ ctrl.result.value = Undefined
  /\ Last(ctrl.result.bulkRequests).payload.revisions = <<Num(1), Num(-1)>>
  /\ Last(ctrl.result.bulkRequests).payload.ids = <<Num(5), Digits(<<7>>)>>

----------------------------------------------------------------------------
(* C33 *)

\* UpdateRecords is being evaluated over a list that is not empty
UpdatingRecords == Running("UpdateRecords") /\ ctrl.kioa.records # <<>>

\* the step appends one update-many entry with an item for every record of
\* the list, in order, and succeeds with a list of as many Records that have
\* the app, id and value of the records given
UpdateRecordsAppendsEntry ==
  LET records == ctrl.kioa.records
      entry == ctrl'.result.bulkRequests[Len(ctrl.bulkRequests) + 1]
      updated == ctrl'.result.value
  IN  /\ ctrl'.mode = "settled"
      /\ ctrl'.result.kind = "Right"
      /\ ctrl'.result.bulkRequests = ctrl.bulkRequests \o <<entry>>
      /\ entry.method = "PUT"
      /\ entry.api = "/k/v1/records.json"
      /\ Len(entry.payload.records) = Len(records)
      /\ \A i \in 1..Len(records) :
           entry.payload.records[i] =
             [id |-> records[i].id,
              record |-> removeProhibitedFieldsForUpdate(records[i].value),
              revision |-> records[i].revision]
      /\ updated.t = "array"
      /\ Len(updated.items) = Len(records)
      /\ \A i \in 1..Len(records) :
           /\ IsKRecord(updated.items[i])
           /\ updated.items[i].app = records[i].app
           /\ updated.items[i].id = records[i].id
           /\ updated.items[i].value = records[i].value

\* the i-th Record of the result has a revision one greater than the i-th
\* record given, for the records i that satisfy Counted
RevisionsOneGreater(Counted(_)) ==
  \A i \in 1..Len(ctrl.kioa.records) :
    Counted(ctrl.kioa.records[i].revision) =>
      /\ ctrl.kioa.records[i].revision # Undefined
      /\ ctrl'.result.value.items[i].revision =
           ExactSuccessor(ctrl.kioa.records[i].revision)

\* the law for the records that have a revision below 2^53
UpdateRecordsWhenSafe ==
  [][UpdatingRecords =>
       /\ UpdateRecordsAppendsEntry
       /\ RevisionsOneGreater(LAMBDA r : r # Undefined /\ SafeRevision(r))]_vars

\* UpdateRecords of a record with revision 1 and one without has succeeded
UpdatedTwoRecords ==
  /\ Produced({"UpdateRecords"})
  /\ Len(ctrl.result.value.items) = 2
  /\ ctrl.result.value.items[1].revision = Num(2)
  /\ ctrl.result.value.items[2].revision = NaN
  /\ Last(ctrl.result.bulkRequests).payload.records[2].revision = Undefined

\* C33: UpdateRecords over a list that is not empty appends exactly one
\* update-many entry whose i-th item has the i-th record's id, its fields
\* without the read-only ones and its revision as given, and succeeds with a
\* list of the same length and order whose i-th Record has the i-th record's
\* app, id and value and a revision one greater than the i-th record's.
C33_UpdateRecords ==
  [][UpdatingRecords =>
       /\ UpdateRecordsAppendsEntry
       /\ RevisionsOneGreater(LAMBDA r : TRUE)]_vars

----------------------------------------------------------------------------
(* C34 *)

\* UpdateRecords or DeleteRecords is being evaluated over a list that is not
\* empty
WritingRecords ==
  /\ ctrl.mode = "run"
  /\ ctrl.kioa.kind \in {"UpdateRecords", "DeleteRecords"}
  /\ ctrl.kioa.records # <<>>

\* the app of the entry the step appends
AppOfEntry == ctrl'.result.bulkRequests[Len(ctrl.bulkRequests) + 1].payload.app

\* the entry goes to the app of the first Record of the list, and UpdateRecord
\* and DeleteRecord send the id under the app of their Record
EntryUnderAppOfHead ==
  [][/\ WritingRecords => AppOfEntry = ctrl.kioa.records[1].app
     /\ (ctrl.mode = "run" /\ ctrl.kioa.kind \in {"UpdateRecord", "DeleteRecord"}) =>
          AppOfEntry = ctrl.kioa.record.app]_vars

\* the ids of a Record of app 1 and of a Record of app 2 are in one entry
TwoAppsInOneEntry ==
  /\ Produced({"UpdateRecords", "DeleteRecords"})
  /\ desc.steps[1].kio.records = <<Record1, Record2>>
  /\ Record1.app # Record2.app
  /\ Len(ctrl.result.bulkRequests) = 1
  /\ ctrl.result.bulkRequests[1].payload.app = Record1.app

\* C34: the entry UpdateRecords or DeleteRecords appends for a list of
\* Records has as its app the app of every Record of the list, whichever
\* apps the Records were read from.
C34_EntryUnderAppOfEachRecord ==
  [][WritingRecords =>
       \A i \in 1..Len(ctrl.kioa.records) :
         AppOfEntry = ctrl.kioa.records[i].app]_vars

----------------------------------------------------------------------------
(* C35 *)

\* the client has thrown something that is not a KintoneRestAPIError
ClientThrew == clientReplies # <<>> /\ Last(clientReplies).kind = "throw"

\* what was thrown is the rejection of the run, and the run ends throwing it
ThrownOutOfRun ==
  ClientThrew =>
    /\ ctrl.mode \in {"settled", "done"}
    /\ ctrl.result = Rejected(Last(clientReplies).value)
    /\ Len(clientCalls) = Len(clientReplies)
    /\ Finished => outcome = Thrown(Last(clientReplies).value)

\* from then on no continuation is invoked, no node is evaluated and the
\* client is not called
NothingRunsAfterThrow ==
  ClientThrew =>
    /\ invoked' = invoked
    /\ visited' = visited
    /\ clientCalls' = clientCalls
    /\ clientReplies' = clientReplies

\* C35: what the client throws that is not a remote error is never made a
\* failure: it is the rejection of the run and runner.run throws it as it
\* is; no failure continuation of a fold, catch or retry (and no other
\* continuation) is invoked for it and no bulkRequest or other client call
\* is made after it.
C35_ClientExceptionPropagates ==
  /\ []ThrownOutOfRun
  /\ [][NothingRunsAfterThrow]_vars

\* the client threw inside a fold, catch or retry after the continuation of
\* an andThen had been invoked, and the run has ended throwing it
C35_Witness ==
  /\ ClientThrew
  /\ Finished
  /\ Entered("Fold") >= 1
  /\ Len(invoked) >= 1
  /\ \A i \in 1..Len(invoked) : invoked[i].f.fn # "fold.failure"
  /\ outcome = Thrown(ClientCrash)

----------------------------------------------------------------------------
(* C36 *)

\* every answer the two calls got was the backend's
AnsweredByBackend ==
  /\ backend # NoBackend
  /\ parked # <<>>
  /\ backend.served = Len(clientReplies) + Len(parked[1].clientReplies)

\* replies begins with the record read at revision n
ReadAt(replies, n) ==
  /\ replies # <<>>
  /\ replies[1].kind = "Right"
  /\ replies[1].value.record["$revision"].value = Digits(DigitsOf(n))

\* both calls have read the stored record at revision n
BothReadAt(n) == ReadAt(clientReplies, n) /\ ReadAt(parked[1].clientReplies, n)

\* the bulk requests of replies that were accepted
Accepted(calls, replies) ==
  Cardinality({i \in 1..Len(replies) :
                 calls[i].op = "bulkRequest" /\ replies[i].kind = "Right"})

\* the call with description d and outcome o won: it returned, the other
\* ended in the backend's error, and the record stored is the one read with
\* the winner's update
Won(d, o, other, n) ==
  /\ o = Returned(Undefined)
  /\ other = Thrown(Conflict)
  /\ backend.revision = n + 1
  /\ \A c \in DOMAIN FieldsApply(d.h.f, FieldsA) :
       backend.value[c] = FieldsApply(d.h.f, FieldsA)[c]

\* C36: against a backend that applies a bulk request as a whole and rejects
\* an update whose revision is not the record's, two calls that have both
\* read the record at revision n and each update it and Commit never have
\* both Commits accepted; when both have ended one has returned, the other
\* has thrown the backend's error and the record stored has exactly the
\* update of the one that returned.
C36_OneCommitWins ==
  AnsweredByBackend =>
    \A n \in StoredRevisions :
      BothReadAt(n) =>
        /\ Accepted(clientCalls, clientReplies) +
           Accepted(parked[1].clientCalls, parked[1].clientReplies) <= 1
        /\ (Finished /\ parked[1].ctrl.mode = "done") =>
             \/ Won(desc, outcome, parked[1].outcome, n)
             \/ Won(parked[1].desc, parked[1].outcome, outcome, n)

\* both calls read revision 7, the second call's Commit was accepted and the
\* first call has ended in the conflict
C36_Witness ==
  /\ AnsweredByBackend
  /\ BothReadAt(7)
  /\ self = 1
  /\ Finished
  /\ parked[1].ctrl.mode = "done"
  /\ outcome = Thrown(Conflict)
  /\ parked[1].outcome = Returned(Undefined)
  /\ backend.revision = 8
  /\ backend.value.text = Field("", Str("c"))

-----------------------------------------------------------------------------
(* The interpreter that threads a state of named values
   (src/src/runner/interpreter.ts, KIORunnerImpl._interpret of src/src/runner.ts) *)

MaxLinks == 3     \* longest chain of andThen and fold calls after KIO.start()

\* {} : the state a run starts with
EmptyState == [n \in {} |-> Undefined]

\* { ...s1, [name]: a2 }
Extend(s1, name, a2) ==
  [n \in DOMAIN s1 \cup {name} |-> IF n = name THEN a2 ELSE s1[n]]

\* kioa.name as a condition: a name that is present and not the empty string
Truthy(kioa) == "name" \in DOMAIN kioa /\ kioa.name # ""

\* kio.andThen(name, f): f is (a, s) => f(a, s).kioa
andThenNamed(kio, name, fn) ==
  [kind |-> "AndThen", name |-> name, self |-> kio,
   f |-> [fn |-> "andThen.f", user |-> fn]]

\* new Right([bulkRequests, state, a]) and new Left([state, e])
RightS(bulkRequests, s, a) == [kind |-> "Right", value |-> <<bulkRequests, s, a>>]
LeftS(s, e) == [kind |-> "Left", value |-> <<s, e>>]

\* the user functions of two arguments: () => kio and (a, s) => KIO.succeed(s)
UserApplyS(u, a, s) ==
  CASE u.u = "const" -> u.kio
    [] u.u = "state" -> Succeed(s)

\* the closures stored in AndThen.f, Fold.success and Fold.failure, called
\* with a value and the state
ApplyS(f, a, s) == UserApplyS(f.user, a, s)

\* one call of a stored closure
Called(f, a, s) == [f |-> f, arg |-> a, state |-> s]

\* s2 of the AndThen case: kioa.name ? { ...s1, [kioa.name]: a2 } : s1
BoundState(kioa, s1, a2) ==
  IF Truthy(kioa) THEN Extend(s1, kioa.name, a2) ELSE s1

\* run(bulkRequests, state, kioa): the result, and the calls of the stored
\* closures in the order they are made
RECURSIVE Interpret(_, _, _)
Interpret(bulkRequests, state, kioa) ==
  CASE kioa.kind = "Succeed" ->
         [result |-> RightS(bulkRequests, state, kioa.value), calls |-> <<>>]
    [] kioa.kind = "Fail" ->
         [result |-> LeftS(state, kioa.error), calls |-> <<>>]
    [] kioa.kind = "AndThen" ->
         LET r1 == Interpret(bulkRequests, state, kioa.self) IN
         IF r1.result.kind = "Left" THEN r1
         ELSE
           LET bulkRequests1 == r1.result.value[1]
               s1 == r1.result.value[2]
               a1 == r1.result.value[3]
               r2 == Interpret(bulkRequests1, s1, ApplyS(kioa.f, a1, s1))
               calls == r1.calls \o <<Called(kioa.f, a1, s1)>> \o r2.calls
           IN IF r2.result.kind = "Left"
              THEN [result |-> r2.result, calls |-> calls]
              ELSE [result |-> RightS(r2.result.value[1],
                                      BoundState(kioa, s1, r2.result.value[3]),
                                      r2.result.value[3]),
                    calls |-> calls]
    [] kioa.kind = "Fold" ->
         LET r == Interpret(bulkRequests, state, kioa.self) IN
         IF r.result.kind = "Left"
         THEN LET s == r.result.value[1]
                  e == r.result.value[2]
                  rf == Interpret(bulkRequests, s, ApplyS(kioa.failure, e, s))
              IN [result |-> rf.result,
                  calls |-> r.calls \o <<Called(kioa.failure, e, s)>> \o rf.calls]
         ELSE LET bulkRequests1 == r.result.value[1]
                  s1 == r.result.value[2]
                  a1 == r.result.value[3]
                  rs == Interpret(bulkRequests1, s1, ApplyS(kioa.success, a1, s1))
              IN [result |-> rs.result,
                  calls |-> r.calls \o <<Called(kioa.success, a1, s1)>> \o rs.calls]

\* the effects a step of a chain answers with: one that succeeds, one that
\* fails, one that binds a name of its own, and one that binds a name of its
\* own and then fails
Inner == andThenNamed(Succeed(Num(3)), "inner", Const(Succeed(Num(4))))
InnerFails == andThen(Inner, Const(Fail(Str("inner error"))))
StepEffects == {Succeed(Num(1)), Fail(Str("error")), Inner, InnerFails}

\* the names a step is given; the empty string is a string too
StepNames == {"x", "y", ""}

\* the calls of a chain: andThen(f), andThen(name, f) and fold(success, failure)
UnnamedLinks ==
  {[op |-> "andThen", fn |-> Const(k)] : k \in StepEffects}
    \cup {[op |-> "andThen", fn |-> [u |-> "state"]]}
NamedLinks ==
  {[op |-> "andThen", name |-> n, fn |-> Const(k)] :
     n \in StepNames, k \in StepEffects}
FoldLinks ==
  {[op |-> "fold", success |-> [u |-> "state"], failure |-> Const(k)] :
     k \in {Succeed(Num(2)), Inner}}
ChainLinks == UnnamedLinks \cup NamedLinks \cup FoldLinks

\* kio.andThen(...) or kio.fold(...) for one call of a chain
Linked(kio, link) ==
  IF link.op = "fold" THEN fold(kio, link.success, link.failure)
  ELSE IF "name" \in DOMAIN link THEN andThenNamed(kio, link.name, link.fn)
  ELSE andThen(kio, link.fn)

\* KIO.start() followed by the calls of links
RECURSIVE Chained(_)
Chained(links) ==
  IF links = <<>> THEN Succeed(Undefined)
  ELSE Linked(Chained(SubSeq(links, 1, Len(links) - 1)), links[Len(links)])

ThreadedPrograms ==
  UNION {[1..n -> ChainLinks] : n \in 1..MaxLinks}

\* runner.run(kioa) is called with the chain desc describes
InitThreaded ==
  /\ desc \in {[links |-> links] : links \in ThreadedPrograms}
  /\ ctrl = Run(<<>>, Chained(desc.links))
  /\ stack = <<>>
  /\ clientCalls = <<>>
  /\ clientReplies = <<>>
  /\ thunkRuns = 0
  /\ invoked = <<>>
  /\ visited = <<>>
  /\ outcome = [kind |-> "none"]
  /\ Alone

\* KIORunnerImpl.run: interpret from no requests and the empty state, and
\* hand back the error of a Left or the value of a Right
RunThreaded ==
  /\ ctrl.mode = "run"
  /\ LET r == Interpret(ctrl.bulkRequests, EmptyState, ctrl.kioa) IN
       /\ ctrl' = Done(r.result)
       /\ invoked' = r.calls
       /\ outcome' =
            IF r.result.kind = "Left"
            THEN Returned(ReplyLeft(r.result.value[2]))
            ELSE Returned(ReplyRight(r.result.value[3]))
  /\ UNCHANGED <<desc, stack, clientCalls, clientReplies, thunkRuns, visited,
                 self, parked, backend>>

NextThreaded == RunThreaded

ThreadedSpec == InitThreaded /\ [][NextThreaded]_vars

-----------------------------------------------------------------------------
(* C37 *)

\* the chain of the run, the chain before its last call (self), and what
\* interpreting a chain from the empty state comes to
Links == desc.links
LastLink == Links[Len(Links)]
FromStart(links) == Interpret(<<>>, EmptyState, Chained(links))
SelfRun == FromStart(SubSeq(Links, 1, Len(Links) - 1))
SelfSucceeded == SelfRun.result.kind = "Right"
SelfState == SelfRun.result.value[2]
SelfValue == SelfRun.result.value[3]

\* the chain is over, its last call is an andThen, and self succeeded
LastStepRan ==
  /\ Finished
  /\ LastLink.op = "andThen"
  /\ SelfSucceeded

\* the call of the last step's continuation: the first after the calls of self
LastStepCall == invoked[Len(SelfRun.calls) + 1]

\* the names bound inside the effects the steps answer with
InnerNames == {"inner"}

\* the state named steps leave: that of self with {name: b} added by a named
\* step, that of self after an unnamed one
StateAfterLastStep(named) ==
  /\ LastStepCall.state = SelfState
  /\ LastStepCall.arg = SelfValue
  /\ ctrl.result.kind = "Right" =>
       ctrl.result.value[2] =
         IF named THEN Extend(SelfState, LastLink.name, ctrl.result.value[3])
         ELSE SelfState

\* the names of the named steps of a chain of steps
StepsOnly == \A i \in 1..Len(Links) : Links[i].op = "andThen"
NamesOfSteps(n) ==
  {Links[i].name : i \in {j \in 1..n : "name" \in DOMAIN Links[j]}}

\* C37: a named andThen that succeeds with b leaves the state of self
\* extended with {name: b} and an unnamed one leaves the state of self as it
\* is; the continuation of a step is called with the state of self, which
\* holds every name bound by the named steps before it; and a name bound
\* inside the effect a step answers with is not in the state after the step.
C37_NamedStepsExtendState ==
  LastStepRan =>
    /\ StateAfterLastStep("name" \in DOMAIN LastLink)
    /\ StepsOnly => NamesOfSteps(Len(Links) - 1) \subseteq DOMAIN LastStepCall.state
    /\ (StepsOnly /\ ctrl.result.kind = "Right") =>
         /\ NamesOfSteps(Len(Links)) \subseteq DOMAIN ctrl.result.value[2]
         /\ DOMAIN ctrl.result.value[2] \cap InnerNames = {}

\* the same for chains none of whose steps is named by the empty string
NoEmptyName ==
  \A i \in 1..Len(Links) : "name" \in DOMAIN Links[i] => Links[i].name # ""
NamedStepsExtendStateWhenNamesNonEmpty ==
  NoEmptyName => C37_NamedStepsExtendState

\* start().andThen("", () => succeed(1)) has succeeded with 1 and its state
\* is still empty
C37_EmptyNameNotBound ==
  /\ Finished
  /\ Links = <<[op |-> "andThen", name |-> "", fn |-> Const(Succeed(Num(1)))]>>
  /\ ctrl.result = RightS(<<>>, EmptyState, Num(1))

\* two named steps, the second answering with an effect that binds "inner",
\* then a step that reads the state: it is called with x and y and no inner
C37_NamedStateReached ==
  /\ Finished
  /\ Links = <<[op |-> "andThen", name |-> "x", fn |-> Const(Succeed(Num(1)))],
               [op |-> "andThen", name |-> "y", fn |-> Const(Inner)],
               [op |-> "andThen", fn |-> [u |-> "state"]]>>
  /\ LastStepCall.state = [n \in {"x", "y"} |-> IF n = "x" THEN Num(1) ELSE Num(4)]
  /\ outcome = Returned(ReplyRight(LastStepCall.state))

-----------------------------------------------------------------------------
(* C38 *)

\* the effects of StepEffects that fail, and the state at the node of each
\* that fails, entered with the state s
FailingEffects == {Fail(Str("error")), InnerFails}
StateAtFailure(s, k) == IF k = InnerFails THEN Extend(s, "inner", Num(4)) ELSE s
ErrorOf(k) == IF k = InnerFails THEN Str("inner error") ELSE Str("error")

\* call m of the chain is a fold, the step before it answers with an effect
\* that fails, and everything before that step succeeded
FoldOverFailure(m) ==
  /\ m \in 2..Len(Links)
  /\ Links[m].op = "fold"
  /\ Links[m - 1].op = "andThen"
  /\ Links[m - 1].fn.u = "const"
  /\ Links[m - 1].fn.kio \in FailingEffects
  /\ FromStart(SubSeq(Links, 1, m - 2)).result.kind = "Right"

\* the state left by the steps that succeeded before step m - 1, and the
\* state at the node that fails in it
StateBefore(m) == FromStart(SubSeq(Links, 1, m - 2)).result.value[2]
FailedState(m) == StateAtFailure(StateBefore(m), Links[m - 1].fn.kio)

\* the call of the failure continuation of fold m: the first after the
\* calls made for the chain before the fold
FailureCall(m) == invoked[Len(FromStart(SubSeq(Links, 1, m - 1)).calls) + 1]

\* the first call made for call m + 1 of the chain
CallAfter(m) == invoked[Len(FromStart(SubSeq(Links, 1, m)).calls) + 1]

\* the failure continuation of fold m is called with the error and the state
\* at the failing node
FailureSeesFailedState(m) ==
  FailureCall(m) =
    Called([fn |-> "fold.failure", user |-> Links[m].failure],
           ErrorOf(Links[m - 1].fn.kio), FailedState(m))

\* a fold that follows fold m is called with that state too
NextFoldSeesFailedState(m) ==
  (m < Len(Links) /\ Links[m + 1].op = "fold") =>
     CallAfter(m).state = FailedState(m)

\* C38: when self fails inside a Fold, the failure continuation is called
\* with the error and the state as it was at the failing node, holding the
\* names bound by the steps that succeeded before it, and a fold that
\* follows on the chain is called with that same state.
C38_FoldSeesStateAtFailure ==
  Finished =>
    \A m \in 1..Len(Links) :
      FoldOverFailure(m) =>
        FailureSeesFailedState(m) /\ NextFoldSeesFailedState(m)

\* the part about the failure continuation, for every chain
FailureContinuationSeesFailedState ==
  Finished =>
    \A m \in 1..Len(Links) : FoldOverFailure(m) => FailureSeesFailedState(m)

\* the whole, for failure continuations whose effect binds no name
FoldSeesStateAtFailureWhenHandlerBindsNothing ==
  Finished =>
    \A m \in 1..Len(Links) :
      (FoldOverFailure(m) /\ Links[m].failure.kio.kind = "Succeed") =>
        FailureSeesFailedState(m) /\ NextFoldSeesFailedState(m)

\* start().andThen(() => fail("error")).fold(..., () => inner).fold(...):
\* the second fold is called with the name bound by the effect of the first
\* fold's failure continuation
C38_HandlerNameLeaks ==
  /\ Finished
  /\ Links = <<[op |-> "andThen", fn |-> Const(Fail(Str("error")))],
               [op |-> "fold", success |-> [u |-> "state"], failure |-> Const(Inner)],
               [op |-> "fold", success |-> [u |-> "state"],
                failure |-> Const(Succeed(Num(2)))]>>
  /\ FailureCall(2).state = EmptyState
  /\ CallAfter(2).state = [n \in {"inner"} |-> Num(4)]

-----------------------------------------------------------------------------
(* C39 *)

\* self.catch(f) is the only fold of the effect, and self has settled under it
CatchSettles ==
  /\ desc.h.h = "catch"
  /\ ctrl.mode = "settled"
  /\ stack # <<>>
  /\ Head(stack).frame = "Fold"
  /\ ctrl.result.kind \in {"Right", "Left"}

\* the calls of the function given to catch
CallsOfHandler ==
  {i \in 1..Len(invoked) :
     /\ invoked[i].f.fn \in {"fold.success", "fold.failure"}
     /\ invoked[i].f.user = desc.h.f}

\* self.catch(f) goes on as self.fold(succeed, f) does: after a success with
\* the buffer B1 and the value a by evaluating succeed(a) from B1, f not
\* called; after a failure with e by evaluating f(e), f called with e
CatchResumesAsFold ==
  LET r == ctrl.result
      f == desc.h.f
  IN  IF r.kind = "Right"
      THEN /\ ctrl' = Run(r.bulkRequests, Succeed(r.value))
           /\ Len(invoked') = Len(invoked) + 1
           /\ invoked'[Len(invoked')].f.user = [u |-> "succeed"]
           /\ CallsOfHandler' = CallsOfHandler
      ELSE /\ ctrl' = Continue(Head(stack).bulkRequests, UserApply(f, r.value))
           /\ invoked' =
                Append(invoked, [f |-> [fn |-> "fold.failure", user |-> f],
                                 arg |-> r.value])

\* C39: catch(f) is fold(succeed, f): when self succeeds with the buffer B1
\* and the value a, self.catch(f) succeeds with B1 and a and f is not called;
\* when self fails with e, the result is that of evaluating f(e).
C39_CatchIsFoldSucceed ==
  [][CatchSettles => CatchResumesAsFold]_vars

\* what follows from it for the whole run: a catch whose self succeeded never
\* calls f
SelfSucceededUnderCatch ==
  /\ desc.h.h = "catch"
  /\ \E i \in 1..Len(invoked) : invoked[i].f.fn = "fold.success"
HandlerNotCalledAfterSuccess ==
  SelfSucceededUnderCatch => CallsOfHandler = {}

\* addRecord(...).catch(f) has succeeded with the buffer and the value the
\* addRecord succeeded with, by way of succeed, and f was not called
C39_Witness ==
  /\ desc = Handled(<<Effect(AddRecord(NewRecord1))>>, CatchRecover, 1, 1)
  /\ ctrl.mode = "settled"
  /\ stack = <<>>
  /\ ctrl.result.kind = "Right"
  /\ Len(ctrl.result.bulkRequests) = 1
  /\ ctrl.result.bulkRequests[1] = AddRecordRequest(NewRecord1)
  /\ ctrl.result.value = Undefined
  /\ Len(invoked) = 1
  /\ invoked[1].f.user = [u |-> "succeed"]

\* fail("error").catch(f) has come to what f("error") evaluates to
CatchRecovered ==
  /\ desc = Handled(<<Effect(Fail(Str("error")))>>, CatchRecover, 1, 1)
  /\ ctrl = Settled(Right(<<>>, Str("recovered")))
  /\ stack = <<>>
  /\ invoked = <<[f |-> [fn |-> "fold.failure", user |-> CatchRecover.f],
                  arg |-> Str("error")]>>

====
